---- MODULE Spec2Model ----
(***************************************************************************)
(* A model of the refine-extension overlay: the OverlayController of       *)
(* src/content/overlay.ts, the document it renders into, and the content   *)
(* script that drives it (pause detection, requests to the background      *)
(* worker, preference changes); the background worker that answers the     *)
(* requests, the popup that sends rewrite requests, and the preference     *)
(* managers of the extension's contexts over chrome.storage.sync.          *)
(*                                                                         *)
(* Texts are sequences of one-character strings.  The controller, the      *)
(* document and the content script are three records; every method of the  *)
(* source is an operator from a world [ctl, dom, cs] to the world after    *)
(* the call, composed in the order the source calls them.                  *)
(***************************************************************************)
EXTENDS Integers, Sequences, FiniteSets, Bags, TLC

VARIABLES ctl, dom, cs, net, last, bg, popup, sync

vars == <<ctl, dom, cs, net, last, bg, popup, sync>>

None == "none"

(***************************************************************************)
(* Strings                                                                 *)
(***************************************************************************)

IsSpace(c) == c \in {" ", "\n"}

\* The lower case of one UTF-16 code unit, as String.prototype.toLowerCase
\* gives it.  "U+0130" stands for the one code unit of the capital I with dot
\* above, whose lower case is the two code units i and U+0307 (combining dot
\* above).
LowerChar(c) ==
  CASE c = "A" -> <<"a">>
    [] c = "B" -> <<"b">>
    [] c = "H" -> <<"h">>
    [] c = "U+0130" -> <<"i", "U+0307">>
    [] OTHER -> <<c>>

RECURSIVE ToLowerCase(_)
ToLowerCase(s) ==
  IF s = <<>> THEN <<>> ELSE LowerChar(Head(s)) \o ToLowerCase(Tail(s))

RECURSIVE TrimStart(_)
TrimStart(s) ==
  IF s = <<>> THEN <<>>
  ELSE IF IsSpace(Head(s)) THEN TrimStart(Tail(s)) ELSE s

RECURSIVE TrimEnd(_)
TrimEnd(s) ==
  IF s = <<>> THEN <<>>
  ELSE IF IsSpace(s[Len(s)]) THEN TrimEnd(SubSeq(s, 1, Len(s) - 1)) ELSE s

Trim(s) == TrimEnd(TrimStart(s))

\* String.prototype.slice(from, to) on 0-based offsets, 0 <= from.
Slice(s, from, to) ==
  IF to <= from THEN <<>> ELSE SubSeq(s, from + 1, IF to > Len(s) THEN Len(s) ELSE to)

\* String.prototype.indexOf: the 0-based offset of the first occurrence, or -1.
IndexOf(text, pat) ==
  LET hits == {i \in 0..(Len(text) - Len(pat)) : Slice(text, i, i + Len(pat)) = pat}
  IN IF hits = {} THEN -1 ELSE CHOOSE i \in hits : \A j \in hits : i <= j

RECURSIVE ReplaceAll(_, _, _)
\* value.replace(/c/g, entity) for a one-character pattern c.
ReplaceAll(value, c, entity) ==
  IF value = <<>> THEN <<>>
  ELSE (IF Head(value) = c THEN entity ELSE <<Head(value)>>)
       \o ReplaceAll(Tail(value), c, entity)

AMP == <<"&", "a", "m", "p", ";">>
LT == <<"&", "l", "t", ";">>
GT == <<"&", "g", "t", ";">>
QUOT == <<"&", "q", "u", "o", "t", ";">>
APOS == <<"&", "#", "3", "9", ";">>

\* escapeHtml replacing the ampersands last, after the other four.
escapeHtml_AmpersandLast(value) ==
  ReplaceAll(ReplaceAll(ReplaceAll(ReplaceAll(ReplaceAll(
    value, "<", LT), ">", GT), "\"", QUOT), "'", APOS), "&", AMP)

\* The five replacements, in the source's order.
escapeHtml(value) ==
  ReplaceAll(ReplaceAll(ReplaceAll(ReplaceAll(ReplaceAll(
    value, "&", AMP), "<", LT), ">", GT), "\"", QUOT), "'", APOS)

RECURSIVE CountWords(_, _)
\* The number of maximal runs of non-space characters of s; inWord tells
\* whether the character before s belongs to a run.
CountWords(s, inWord) ==
  IF s = <<>> THEN 0
  ELSE IF IsSpace(Head(s)) THEN CountWords(Tail(s), FALSE)
  ELSE (IF inWord THEN 0 ELSE 1) + CountWords(Tail(s), TRUE)

getWordCount(text) == IF text = <<>> THEN 0 ELSE CountWords(Trim(text), FALSE)

(***************************************************************************)
(* The page: elements, their texts, geometry                               *)
(***************************************************************************)

\* The text inputs a page may hold, in document order.
Elements == {"A", "B"}
DocOrder == <<"A", "B">>

\* Both are textarea[data-id="prompt-textarea"] elements.
ElementKind(e) == "prompt-textarea"

TEXTAREA_SELECTOR == "textarea[data-id=prompt-textarea]"

\* Whether an element of the given kind matches a selector the source uses.
Matches(kind, selector) ==
  CASE selector = TEXTAREA_SELECTOR -> kind = "prompt-textarea"
    [] selector = "textarea" -> kind \in {"prompt-textarea", "textarea"}
    [] selector = "div[role=textbox]" -> kind = "div-textbox"
    [] OTHER -> FALSE

IsTextArea(e) == ElementKind(e) \in {"prompt-textarea", "textarea"}

TWELVE_WORDS ==
  <<"a", " ", "b", " ", "a", " ", "b", " ", "a", " ", "b", " ",
    "a", " ", "b", " ", "a", " ", "b", " ", "a", " ", "b">>

\* The texts a user types: short ones, and with the content script's word
\* threshold in play a long one.
ShortTexts == { <<>>, <<"H", "<", " ">> }
TypedTexts == ShortTexts \cup {TWELVE_WORDS}

\* The texts an input may hold when a suggestion is clicked: also a blank
\* one and one that ends with a word.
ClickTexts == TypedTexts \cup { <<" ">>, <<"a">> }

Geoms == {"g1", "g2"}

\* The page's layout in geometry g: the first input's client rectangle, the
\* window's scroll offsets and the input's computed typography.
PageGeometry(g) ==
  IF g = "g1"
  THEN [top |-> 10, left |-> 5, width |-> 200, height |-> 40,
        scrollX |-> 0, scrollY |-> 0, font |-> "14px"]
  ELSE [top |-> 10, left |-> 5, width |-> 240, height |-> 60,
        scrollX |-> 2, scrollY |-> 30, font |-> "16px"]

\* element.getBoundingClientRect(): the second input lies below the first.
getBoundingClientRect(e, g) ==
  LET p == PageGeometry(g)
  IN [top |-> IF e = "A" THEN p.top ELSE p.top + 100,
      left |-> p.left, width |-> p.width, height |-> p.height]

getComputedStyle(e, g) == PageGeometry(g).font

\* document.querySelector(selector): the first matching element of the document.
querySelector(d, selector) ==
  LET hits == {i \in 1..Len(DocOrder) :
                 DocOrder[i] \in d.inDoc /\ Matches(ElementKind(DocOrder[i]), selector)}
  IN IF hits = {} THEN None
     ELSE DocOrder[CHOOSE i \in hits : \A j \in hits : i <= j]

(***************************************************************************)
(* The visual tree's nodes                                                 *)
(***************************************************************************)

NoStyle == [top |-> -1, left |-> -1, width |-> -1, height |-> -1]

NullRoot == [node |-> FALSE, style |-> NoStyle]
NullTextLayer == [node |-> FALSE, font |-> ""]
NullGhostLayer == [node |-> FALSE, hidden |-> FALSE, html |-> <<>>]
NullErrorsLayer == [node |-> FALSE, html |-> <<>>]
NullSuggestionsLayer == [node |-> FALSE, hidden |-> FALSE, pills |-> <<>>, top |-> -1]
NullTooltip == [node |-> FALSE, hidden |-> FALSE, text |-> <<>>, top |-> -1, left |-> -1]

AllFlags ==
  [overlayEnabled : BOOLEAN, ghostTextEnabled : BOOLEAN,
   suggestionsEnabled : BOOLEAN, criticalErrorsEnabled : BOOLEAN]

DefaultFlags ==
  [overlayEnabled |-> TRUE, ghostTextEnabled |-> TRUE,
   suggestionsEnabled |-> TRUE, criticalErrorsEnabled |-> TRUE]

\* A new OverlayController.
NewController ==
  [root |-> NullRoot, textLayer |-> NullTextLayer, ghostLayer |-> NullGhostLayer,
   errorsLayer |-> NullErrorsLayer, suggestionsLayer |-> NullSuggestionsLayer,
   tooltip |-> NullTooltip, target |-> None, textObserver |-> None,
   scrollHandler |-> None, resizeObserver |-> None, ghostCompletion |-> <<>>,
   suggestions |-> <<>>, errors |-> <<>>, currentText |-> <<>>,
   flags |-> DefaultFlags]

(***************************************************************************)
(* escapeHtml / buildErrorMarkup (overlay.ts)                              *)
(***************************************************************************)

\* LocateHighlights giving up the whole list at the first error it cannot
\* locate.
RECURSIVE LocateHighlights_StopAtMiss(_, _)
LocateHighlights_StopAtMiss(text, errors) ==
  IF errors = <<>> THEN <<>>
  ELSE LET error == Head(errors)
           span == Trim(error.span)
           start == IndexOf(ToLowerCase(text), ToLowerCase(span))
       IN IF span = <<>> \/ start = -1 THEN <<>>
          ELSE <<[start |-> start, end |-> start + Len(span), error |-> error]>>
               \o LocateHighlights_StopAtMiss(text, Tail(errors))

\* The error list's located highlights, in the list's order: an error whose
\* trimmed span is empty or does not occur in text is skipped.
RECURSIVE LocateHighlights(_, _)
LocateHighlights(text, errors) ==
  IF errors = <<>> THEN <<>>
  ELSE LET error == Head(errors)
           span == Trim(error.span)
           start == IndexOf(ToLowerCase(text), ToLowerCase(span))
           rest == LocateHighlights(text, Tail(errors))
       IN IF span = <<>> \/ start = -1 THEN rest
          ELSE <<[start |-> start, end |-> start + Len(span), error |-> error]>> \o rest

\* h inserted into the sorted sequence hs, after the entries that do not
\* start later (Array.prototype.sort is stable).
RECURSIVE InsertByStart(_, _)
InsertByStart(hs, h) ==
  IF hs = <<>> THEN <<h>>
  ELSE IF Head(hs).start <= h.start THEN <<Head(hs)>> \o InsertByStart(Tail(hs), h)
  ELSE <<h>> \o hs

RECURSIVE SortByStart(_)
SortByStart(hs) ==
  IF hs = <<>> THEN <<>>
  ELSE InsertByStart(SortByStart(SubSeq(hs, 1, Len(hs) - 1)), hs[Len(hs)])

\* A piece of markup: escaped plain text, or a span.refine-error-underline
\* wrapper with its data-error-message and data-error-index attributes.
PlainPiece(s) == [kind |-> "text", text |-> s, message |-> <<>>, index |-> -1]
WrapperPiece(s, m, i) == [kind |-> "underline", text |-> s, message |-> m, index |-> i]

\* An appended string: nothing when it is empty.
Plain(s) == IF s = <<>> THEN <<>> ELSE <<PlainPiece(s)>>

RECURSIVE MarkupFrom(_, _, _, _)
\* The markup of the highlights from the index-th on (0-based), cursor being
\* the offset the markup has reached.
MarkupFrom(text, highlights, index, cursor) ==
  IF index >= Len(highlights) THEN Plain(escapeHtml(Slice(text, cursor, Len(text))))
  ELSE LET highlight == highlights[index + 1]
           segment == escapeHtml(Slice(text, highlight.start, highlight.end))
       IN Plain(escapeHtml(Slice(text, cursor, highlight.start)))
          \o <<WrapperPiece(segment, escapeHtml(highlight.error.message), index)>>
          \o MarkupFrom(text, highlights, index + 1, highlight.end)

buildErrorMarkup(text, errors) ==
  IF text = <<>> THEN <<>>
  ELSE MarkupFrom(text, SortByStart(LocateHighlights(text, errors)), 0, 0)

(***************************************************************************)
(* OverlayController (overlay.ts).  A world w is [ctl, dom, cs].           *)
(***************************************************************************)

Dec(n) == IF n > 0 THEN n - 1 ELSE 0

\* detach, forgetting to remove the input listener.
detach_KeepInputListener(w) ==
  LET c == w.ctl
      t == c.target
      offScroll == IF t # None /\ c.scrollHandler = t
                   THEN [w.dom.scrollListeners EXCEPT ![t] = Dec(@)]
                   ELSE w.dom.scrollListeners
      offResize == IF c.resizeObserver # None
                   THEN [w.dom.resizeObservers EXCEPT ![c.resizeObserver] = Dec(@)]
                   ELSE w.dom.resizeObservers
  IN [w EXCEPT !.dom.scrollListeners = offScroll,
               !.dom.resizeObservers = offResize,
               !.ctl.resizeObserver = None,
               !.ctl.textObserver = None,
               !.ctl.scrollHandler = None,
               !.ctl.target = None]

detach(w) ==
  LET c == w.ctl
      t == c.target
      \* removeEventListener removes the closure only where it is registered,
      \* which is on the element it was created for.
      offInput == IF t # None /\ c.textObserver = t
                  THEN [w.dom.inputListeners EXCEPT ![t] = Dec(@)]
                  ELSE w.dom.inputListeners
      offScroll == IF t # None /\ c.scrollHandler = t
                   THEN [w.dom.scrollListeners EXCEPT ![t] = Dec(@)]
                   ELSE w.dom.scrollListeners
      offResize == IF c.resizeObserver # None
                   THEN [w.dom.resizeObservers EXCEPT ![c.resizeObserver] = Dec(@)]
                   ELSE w.dom.resizeObservers
  IN [w EXCEPT !.dom.inputListeners = offInput,
               !.dom.scrollListeners = offScroll,
               !.dom.resizeObservers = offResize,
               !.ctl.resizeObserver = None,
               !.ctl.textObserver = None,
               !.ctl.scrollHandler = None,
               !.ctl.target = None]

\* destroy, forgetting to remove the tooltip from the document.
destroy_KeepTooltip(w) ==
  LET d == detach(w)
  IN [d EXCEPT !.dom.roots = IF d.ctl.root.node THEN Dec(@) ELSE @,
               !.ctl.root = NullRoot,
               !.ctl.textLayer = NullTextLayer,
               !.ctl.ghostLayer = NullGhostLayer,
               !.ctl.errorsLayer = NullErrorsLayer,
               !.ctl.suggestionsLayer = NullSuggestionsLayer,
               !.ctl.tooltip = NullTooltip]

destroy(w) ==
  LET d == detach(w)
  IN [d EXCEPT !.dom.hover = IF d.ctl.root.node THEN <<>> ELSE @,
               !.dom.roots = IF d.ctl.root.node THEN Dec(@) ELSE @,
               !.dom.tooltips = IF d.ctl.tooltip.node THEN Dec(@) ELSE @,
               !.ctl.root = NullRoot,
               !.ctl.textLayer = NullTextLayer,
               !.ctl.ghostLayer = NullGhostLayer,
               !.ctl.errorsLayer = NullErrorsLayer,
               !.ctl.suggestionsLayer = NullSuggestionsLayer,
               !.ctl.tooltip = NullTooltip]

\* A new visual tree appended to the document for the controller.
buildRoot(w) ==
  [w EXCEPT !.dom.roots = @ + 1,
                 !.dom.tooltips = @ + 1,
                 !.ctl.root = [node |-> TRUE, style |-> NoStyle],
                 !.ctl.textLayer = [node |-> TRUE, font |-> ""],
                 !.ctl.ghostLayer = [node |-> TRUE, hidden |-> TRUE, html |-> <<>>],
                 !.ctl.errorsLayer = [node |-> TRUE, html |-> <<>>],
                 !.ctl.suggestionsLayer =
                    [node |-> TRUE, hidden |-> FALSE, pills |-> <<>>, top |-> -1],
                 !.ctl.tooltip =
                    [node |-> TRUE, hidden |-> TRUE, text |-> <<>>, top |-> -1, left |-> -1]]

\* ensureRoot without its check for an existing root.
ensureRoot_NoCheck(w) == buildRoot(w)

ensureRoot(w) == IF w.ctl.root.node THEN w ELSE buildRoot(w)

SUGGESTIONS_GAP == 8

\* updateLayout writing the client rectangle without the window's scroll
\* offsets.
updateLayout_ClientRect(w) ==
  IF ~w.ctl.root.node \/ w.ctl.target = None THEN w
  ELSE LET rect == getBoundingClientRect(w.ctl.target, w.dom.geom)
           computed == getComputedStyle(w.ctl.target, w.dom.geom)
       IN [w EXCEPT !.ctl.root.style =
                       [top |-> rect.top, left |-> rect.left,
                        width |-> rect.width, height |-> rect.height],
                    !.ctl.textLayer.font = IF w.ctl.textLayer.node THEN computed ELSE @,
                    !.ctl.suggestionsLayer.top =
                       IF w.ctl.suggestionsLayer.node THEN rect.height + SUGGESTIONS_GAP ELSE @]

updateLayout(w) ==
  IF ~w.ctl.root.node \/ w.ctl.target = None THEN w
  ELSE LET rect == getBoundingClientRect(w.ctl.target, w.dom.geom)
           page == PageGeometry(w.dom.geom)
           computed == getComputedStyle(w.ctl.target, w.dom.geom)
       IN [w EXCEPT !.ctl.root.style =
                       [top |-> rect.top + page.scrollY, left |-> rect.left + page.scrollX,
                        width |-> rect.width, height |-> rect.height],
                    !.ctl.textLayer.font = IF w.ctl.textLayer.node THEN computed ELSE @,
                    !.ctl.suggestionsLayer.top =
                       IF w.ctl.suggestionsLayer.node THEN rect.height + SUGGESTIONS_GAP ELSE @]

updateGhostLayer(w) ==
  IF ~w.ctl.ghostLayer.node \/ ~w.ctl.flags.overlayEnabled \/ ~w.ctl.flags.ghostTextEnabled
  THEN w
  ELSE IF w.ctl.ghostCompletion = <<>> \/ w.ctl.target = None
  THEN [w EXCEPT !.ctl.ghostLayer.hidden = TRUE, !.ctl.ghostLayer.html = <<>>]
  ELSE LET safeUser == escapeHtml(w.dom.value[w.ctl.target])
           safeGhost == escapeHtml(w.ctl.ghostCompletion)
       IN [w EXCEPT !.ctl.ghostLayer.html =
                       <<[class |-> "refine-ghost-prefix", text |-> safeUser],
                         [class |-> "refine-ghost-completion", text |-> safeGhost]>>,
                    !.ctl.ghostLayer.hidden = FALSE]

updateSuggestionsLayer(w) ==
  IF ~w.ctl.suggestionsLayer.node THEN w
  ELSE IF ~w.ctl.flags.overlayEnabled \/ ~w.ctl.flags.suggestionsEnabled
          \/ Len(w.ctl.suggestions) = 0
  THEN [w EXCEPT !.ctl.suggestionsLayer.pills = <<>>,
                 !.ctl.suggestionsLayer.hidden = TRUE]
  ELSE [w EXCEPT !.ctl.suggestionsLayer.hidden = FALSE,
                 \* one button.refine-suggestion-pill per suggestion, whose click
                 \* applies that suggestion
                 !.ctl.suggestionsLayer.pills = w.ctl.suggestions]

Entities == {AMP, LT, GT, QUOT, APOS}

EntityChar(entity) ==
  CASE entity = AMP -> "&"
    [] entity = LT -> "<"
    [] entity = GT -> ">"
    [] entity = QUOT -> "\""
    [] entity = APOS -> "'"

StartsWith(s, prefix) ==
  Len(s) >= Len(prefix) /\ SubSeq(s, 1, Len(prefix)) = prefix

RECURSIVE unescapeHtml(_)
\* The text a browser reads back from escaped markup: each of the five
\* entities decoded, from left to right.
unescapeHtml(s) ==
  IF s = <<>> THEN <<>>
  ELSE IF \E entity \in Entities : StartsWith(s, entity)
  THEN LET entity == CHOOSE e \in Entities : StartsWith(s, e)
       IN <<EntityChar(entity)>> \o unescapeHtml(SubSeq(s, Len(entity) + 1, Len(s)))
  ELSE <<Head(s)>> \o unescapeHtml(Tail(s))

\* Assigning innerHTML replaces the layer's elements: the underline the
\* pointer was over (dom.hover, <<>> or <<its place in the markup>>) is no
\* longer in the document, and an element that is removed gets no
\* mouseleave event.
updateErrorLayer(w) ==
  IF ~w.ctl.errorsLayer.node THEN w
  ELSE IF ~w.ctl.flags.overlayEnabled \/ ~w.ctl.flags.criticalErrorsEnabled
          \/ Len(w.ctl.errors) = 0
  THEN [w EXCEPT !.ctl.errorsLayer.html = <<>>, !.dom.hover = <<>>]
  ELSE [w EXCEPT !.ctl.errorsLayer.html = buildErrorMarkup(w.ctl.currentText, w.ctl.errors),
                 !.dom.hover = <<>>]

hideTooltip(w) ==
  IF w.ctl.tooltip.node THEN [w EXCEPT !.ctl.tooltip.hidden = TRUE] ELSE w

\* showTooltip(span) for the underline at place i of the error layer's
\* markup: dataset.errorMessage is the attribute's value as the parser
\* decoded it.  The tooltip is put below the underline; the model takes
\* the underline's rectangle to be the root's.
showTooltip(w, i) ==
  LET message == unescapeHtml(w.ctl.errorsLayer.html[i].message)
  IN IF ~w.ctl.tooltip.node \/ message = <<>> THEN w
     ELSE [w EXCEPT !.ctl.tooltip.text = message,
                    !.ctl.tooltip.hidden = FALSE,
                    !.ctl.tooltip.top = w.ctl.root.style.top + w.ctl.root.style.height + 6,
                    !.ctl.tooltip.left = w.ctl.root.style.left]

clearGhost(w) == updateGhostLayer([w EXCEPT !.ctl.ghostCompletion = <<>>])

\* The input listener setTarget registers on element.
textObserver(w, element) ==
  updateLayout(updateErrorLayer(clearGhost(
    [w EXCEPT !.ctl.currentText = w.dom.value[element]])))

\* setTarget past its check for the current target and its detach().
attach(d, element) ==
  IF element = None \/ ~d.ctl.flags.overlayEnabled THEN destroy(d)
  ELSE LET r == ensureRoot(d)
       IN updateLayout(
            [r EXCEPT !.ctl.currentText = r.dom.value[element],
                      !.ctl.textObserver = element,
                      !.dom.inputListeners[element] = @ + 1,
                      !.ctl.scrollHandler = element,
                      !.dom.scrollListeners[element] = @ + 1,
                      !.ctl.resizeObserver = element,
                      !.dom.resizeObservers[element] = @ + 1])

\* setTarget registering its listeners again on the element it already tracks.
setTarget_Reattach(w, element) ==
  IF w.ctl.target = element THEN attach(w, element)
  ELSE attach([detach(w) EXCEPT !.ctl.target = element], element)

setTarget(w, element) ==
  IF w.ctl.target = element THEN w
  ELSE attach([detach(w) EXCEPT !.ctl.target = element], element)

attachToActiveTextarea(w) == setTarget(w, querySelector(w.dom, TEXTAREA_SELECTOR))

setFlags(w, flags) ==
  LET f == [w EXCEPT !.ctl.flags = flags]
  IN IF ~flags.overlayEnabled THEN destroy(f)
     ELSE IF f.ctl.target # None
     THEN updateErrorLayer(updateSuggestionsLayer(updateGhostLayer(
            updateLayout(ensureRoot(f)))))
     ELSE attachToActiveTextarea(f)

\* renderGhostText clearing the suggestions along with the ghost.
renderGhostText_ClearsSuggestions(w, completion) ==
  IF completion = <<>>
  THEN updateSuggestionsLayer(clearGhost([w EXCEPT !.ctl.suggestions = <<>>]))
  ELSE updateGhostLayer([w EXCEPT !.ctl.ghostCompletion = completion])

renderGhostText(w, completion) ==
  IF completion = <<>> THEN clearGhost(w)
  ELSE updateGhostLayer([w EXCEPT !.ctl.ghostCompletion = completion])

renderSuggestions(w, suggestions) ==
  updateSuggestionsLayer([w EXCEPT !.ctl.suggestions = suggestions])

renderCriticalErrors(w, errors) ==
  updateErrorLayer([w EXCEPT !.ctl.errors = errors])

clearAll(w) ==
  updateErrorLayer(updateSuggestionsLayer(updateGhostLayer(
    [w EXCEPT !.ctl.ghostCompletion = <<>>, !.ctl.suggestions = <<>>,
              !.ctl.errors = <<>>])))

RECURSIVE runTextObservers(_, _, _)
\* The controller's n input listeners on element, run one after the other.
runTextObservers(w, element, n) ==
  IF n = 0 THEN w ELSE runTextObservers(textObserver(w, element), element, n - 1)

RECURSIVE runLayoutCallbacks(_, _)
\* n scroll listeners or resize-observer callbacks: each is updateLayout.
runLayoutCallbacks(w, n) ==
  IF n = 0 THEN w ELSE runLayoutCallbacks(updateLayout(w), n - 1)

(***************************************************************************)
(* The content script (contentScript.ts)                                   *)
(***************************************************************************)

WORD_THRESHOLD == 12

TYPING_PAUSE_MS == 600

\* window.clearTimeout(id): the timeout no longer waits; an id that does not
\* wait (it has fired, or was cleared) changes nothing.
clearTimeout(w, id) == [w EXCEPT !.dom.timeouts = {t \in @ : t.id # id}]

\* The id window.setTimeout returns: a positive integer no waiting timeout
\* has.
TimeoutId(w) ==
  CHOOSE id \in 1..(Cardinality(w.dom.timeouts) + 1) :
    /\ \A t \in w.dom.timeouts : t.id # id
    /\ \A other \in 1..(id - 1) : \E t \in w.dom.timeouts : t.id = other

\* pauseTimer = window.setTimeout(callback, TYPING_PAUSE_MS).  pauseTimer is
\* <<>> while it is null, and <<id>> once it holds an id.
setPauseTimer(w) ==
  LET id == TimeoutId(w)
  IN [w EXCEPT !.dom.timeouts = @ \cup {[id |-> id, left |-> TYPING_PAUSE_MS]},
               !.cs.pauseTimer = <<id>>]

\* schedulePauseCheck without its clearTimeout.
schedulePauseCheck_NoClear(w) == setPauseTimer(w)

schedulePauseCheck(w) ==
  setPauseTimer(IF w.cs.pauseTimer # <<>>
                THEN clearTimeout(w, w.cs.pauseTimer[1]) ELSE w)

\* The input listener attachInputListener registers on element.
pauseListener(w, element) ==
  schedulePauseCheck([w EXCEPT !.cs.lastTextValue = w.dom.value[element]])

RECURSIVE runPauseListeners(_, _, _)
runPauseListeners(w, element, n) ==
  IF n = 0 THEN w ELSE runPauseListeners(pauseListener(w, element), element, n - 1)

\* element.dispatchEvent(new Event("input")): every listener registered on it.
dispatchInput(w, element) ==
  runPauseListeners(
    runTextObservers(w, element, w.dom.inputListeners[element]),
    element, w.dom.pauseListeners[element])

\* applySuggestion without its dispatchEvent.
applySuggestion_NoEvent(w, suggestion) ==
  IF w.ctl.target = None THEN w
  ELSE LET current == w.dom.value[w.ctl.target]
           next == IF Len(Trim(current)) > 0
                   THEN TrimEnd(current) \o <<"\n", "\n">> \o suggestion.reason
                   ELSE suggestion.reason
       IN [w EXCEPT !.dom.value[w.ctl.target] = next]

applySuggestion(w, suggestion) ==
  IF w.ctl.target = None THEN w
  ELSE LET current == w.dom.value[w.ctl.target]
           next == IF Len(Trim(current)) > 0
                   THEN TrimEnd(current) \o <<"\n", "\n">> \o suggestion.reason
                   ELSE suggestion.reason
       \* target.focus() moves the document's focus, which no handler reads
       \* and the model does not track.
       IN dispatchInput([w EXCEPT !.dom.value[w.ctl.target] = next], w.ctl.target)

locateTextInput(w) ==
  LET textarea == IF querySelector(w.dom, TEXTAREA_SELECTOR) # None
                  THEN querySelector(w.dom, TEXTAREA_SELECTOR)
                  ELSE querySelector(w.dom, "textarea")
      divInput == querySelector(w.dom, "div[role=textbox]")
      candidate == IF textarea # None THEN textarea ELSE divInput
  IN IF candidate # None /\ candidate # w.cs.activeInput
     THEN LET a == [w EXCEPT !.cs.activeInput = candidate,
                             !.dom.pauseListeners[candidate] = @ + 1]
          IN IF IsTextArea(candidate) THEN attachToActiveTextarea(a) ELSE a
     ELSE w

\* The MutationObserver callback of init().
onMutation(w) ==
  IF ~w.cs.observing THEN w
  ELSE IF w.cs.activeInput # None /\ w.cs.activeInput \in w.dom.inDoc THEN w
  ELSE locateTextInput([w EXCEPT !.cs.activeInput = None])

(***************************************************************************)
(* JSON texts                                                              *)
(***************************************************************************)

\* A JSON value: what typeof and Array.isArray tell of it, and its content.
\* An object is the sequence of its members, each a pair of key and value.
JNull == [t |-> "null", v |-> <<>>]
JBool(b) == [t |-> "boolean", v |-> b]
JNum(n) == [t |-> "number", v |-> n]
JStr(s) == [t |-> "string", v |-> s]
JArr(items) == [t |-> "array", v |-> items]
JObj(members) == [t |-> "object", v |-> members]

\* JSON.parse throws on a text that is no JSON text.
SyntaxError == [t |-> "SyntaxError", v |-> <<>>]

Undefined == [t |-> "undefined", v |-> <<>>]

\* key in value, for a value that is an object.
HasKey(value, key) == \E i \in 1..Len(value.v) : value.v[i][1] = key

\* value[key], for an object that has the key.
Member(value, key) ==
  value.v[CHOOSE i \in 1..Len(value.v) : value.v[i][1] = key][2]

\* parsed?.key: undefined for null, for a primitive and for a missing key; an
\* array has none of the keys the worker asks for.
OptionalMember(value, key) ==
  IF value.t = "object" /\ HasKey(value, key) THEN Member(value, key)
  ELSE Undefined

DIGITS == <<"0", "1", "2", "3", "4", "5", "6", "7", "8", "9">>

RECURSIVE NumberText(_)
NumberText(n) ==
  IF n < 10 THEN <<DIGITS[n + 1]>>
  ELSE NumberText(n \div 10) \o <<DIGITS[(n % 10) + 1]>>

\* JSON.stringify of a value whose strings and keys need no escape.
RECURSIVE JSONText(_)
RECURSIVE JSONItems(_, _)
RECURSIVE JSONMembers(_, _)
JSONText(value) ==
  CASE value.t = "null" -> <<"n", "u", "l", "l">>
    [] value.t = "boolean" -> IF value.v THEN <<"t", "r", "u", "e">>
                              ELSE <<"f", "a", "l", "s", "e">>
    [] value.t = "number" -> NumberText(value.v)
    [] value.t = "string" -> <<"\"">> \o value.v \o <<"\"">>
    [] value.t = "array" -> <<"[">> \o JSONItems(value.v, 1) \o <<"]">>
    [] value.t = "object" -> <<"{">> \o JSONMembers(value.v, 1) \o <<"}">>

JSONItems(items, i) ==
  IF i > Len(items) THEN <<>>
  ELSE (IF i > 1 THEN <<",">> ELSE <<>>) \o JSONText(items[i])
       \o JSONItems(items, i + 1)

JSONMembers(members, i) ==
  IF i > Len(members) THEN <<>>
  ELSE (IF i > 1 THEN <<",">> ELSE <<>>)
       \o <<"\"">> \o members[i][1] \o <<"\"">> \o <<":">>
       \o JSONText(members[i][2]) \o JSONMembers(members, i + 1)

\* The keys the worker reads.
TYPE == <<"t", "y", "p", "e">>
LABEL == <<"l", "a", "b", "e", "l">>
REASON == <<"r", "e", "a", "s", "o", "n">>
SPAN == <<"s", "p", "a", "n">>
MESSAGE == <<"m", "e", "s", "s", "a", "g", "e">>
VERSIONS == <<"v", "e", "r", "s", "i", "o", "n", "s">>
SUGGESTIONS == <<"s", "u", "g", "g", "e", "s", "t", "i", "o", "n", "s">>

\* The items a model output lists: well-formed ones, whose strings carry
\* spaces to trim, and malformed ones.
SuggestionFull ==
  JObj(<< <<TYPE, JStr(<<"c">>)>>, <<LABEL, JStr(<<" ", "a">>)>>,
          <<REASON, JStr(<<"b", " ">>)>> >>)
SuggestionNoType ==
  JObj(<< <<LABEL, JStr(<<"d">>)>>, <<REASON, JStr(<<"e">>)>> >>)
SuggestionNumberType ==
  JObj(<< <<TYPE, JNum(7)>>, <<LABEL, JStr(<<"f">>)>>, <<REASON, JStr(<<>>)>> >>)
SuggestionNumberLabel ==
  JObj(<< <<LABEL, JNum(7)>>, <<REASON, JStr(<<"b">>)>> >>)
SuggestionNullReason ==
  JObj(<< <<LABEL, JStr(<<"a">>)>>, <<REASON, JNull>> >>)
SuggestionNoReason == JObj(<< <<LABEL, JStr(<<"a">>)>> >>)

ErrorFull ==
  JObj(<< <<SPAN, JStr(<<" ", "a">>)>>, <<MESSAGE, JStr(<<"b", " ">>)>> >>)
ErrorPlain == JObj(<< <<SPAN, JStr(<<"d">>)>>, <<MESSAGE, JStr(<<"e">>)>> >>)
ErrorNumberSpan == JObj(<< <<SPAN, JNum(7)>>, <<MESSAGE, JStr(<<"b">>)>> >>)
ErrorArrayMessage ==
  JObj(<< <<SPAN, JStr(<<"a">>)>>, <<MESSAGE, JArr(<<JStr(<<"b">>)>>)>> >>)
ErrorNoMessage == JObj(<< <<SPAN, JStr(<<"a">>)>> >>)

\* The JSON values the model answers with.
JSONValues ==
  { JNull, JBool(TRUE), JNum(42), JStr(<<"a">>), JArr(<<>>), JObj(<<>>),
    JArr(<<SuggestionFull>>),
    JArr(<<SuggestionNumberLabel, SuggestionFull, JNull, SuggestionNoType>>),
    JArr(<<SuggestionNoReason, JStr(<<"a">>), SuggestionNumberType,
           JArr(<<SuggestionFull>>), SuggestionNullReason>>),
    JObj(<< <<SUGGESTIONS, JArr(<<SuggestionNoType, JNum(7), SuggestionFull>>)>> >>),
    JObj(<< <<SUGGESTIONS, JStr(<<"a">>)>> >>),
    JArr(<<ErrorFull>>),
    JArr(<<ErrorNumberSpan, ErrorFull, JNull, ErrorPlain>>),
    JArr(<<ErrorNoMessage, JBool(FALSE), ErrorArrayMessage, ErrorPlain>>),
    JObj(<< <<VERSIONS, JArr(<<JStr(<<"a">>), JStr(<<" ", "b", " ">>),
                               JStr(<<>>), JNum(7), JStr(<<"c">>)>>)>> >>),
    JObj(<< <<VERSIONS, JArr(<<JStr(<<" ">>)>>)>> >>),
    JObj(<< <<VERSIONS, JArr(<<JNull, JStr(<<>>)>>)>> >>),
    JObj(<< <<VERSIONS, JArr(<<>>)>> >>),
    JObj(<< <<VERSIONS, JStr(<<"a">>)>> >>) }

\* JSON.parse: the value whose text this is.
JSONParse(text) ==
  LET values == {value \in JSONValues : JSONText(value) = text}
  IN IF values = {} THEN SyntaxError ELSE CHOOSE value \in values : TRUE

\* Model outputs that are no JSON texts.
PlainTexts ==
  { <<"a">>, <<"a", " ", "b">>,
    <<"a", "\n", "\n", " ", "b", " ", "\n", " ", "\n", "c">>,
    <<"[", "a">>, <<"{", "\"", "a", "\"", ":", "}">> }

(***************************************************************************)
(* The background worker (background.ts, api/llm.ts)                       *)
(***************************************************************************)

MAX_RETRIES == 3

\* callModel, given the outcome of its fetch: the trimmed content, or the
\* error it throws for a failed request and for missing or empty content.
callModel(http) ==
  IF ~http.ok
  THEN [ok |-> FALSE, text |-> <<>>, error |-> "OpenAI request failed"]
  ELSE IF http.content = <<>>
  THEN [ok |-> FALSE, text |-> <<>>, error |-> "OpenAI response missing content"]
  ELSE [ok |-> TRUE, text |-> Trim(http.content), error |-> None]

\* typeof value.
TypeOf(value) ==
  IF value.t \in {"null", "array", "object"} THEN "object" ELSE value.t

\* key in value, for the keys the worker asks for: an array has none of them.
In(key, value) == value.t = "object" /\ HasKey(value, key)

UNSPECIFIED == <<"u", "n", "s", "p", "e", "c", "i", "f", "i", "e", "d">>
GENERIC == <<"g", "e", "n", "e", "r", "i", "c">>
SUGGESTION_ ==
  <<"S", "u", "g", "g", "e", "s", "t", "i", "o", "n", " ">>

\* normalizeSuggestion without the typeof test of reason.
normalizeSuggestion_ReasonUnchecked(candidate) ==
  IF \/ candidate.t = "null"
     \/ TypeOf(candidate) # "object"
     \/ ~In(LABEL, candidate)
     \/ ~In(REASON, candidate)
  THEN <<>>
  ELSE LET type == OptionalMember(candidate, TYPE)
           label == Member(candidate, LABEL)
           reason == Member(candidate, REASON)
       IN IF TypeOf(label) # "string" THEN <<>>
          ELSE << [type |-> IF TypeOf(type) = "string" THEN type.v
                            ELSE UNSPECIFIED,
                   label |-> Trim(label.v),
                   reason |-> Trim(reason.v)] >>

\* normalizeSuggestion: the suggestion in a sequence of its own, or the empty
\* sequence for null.
normalizeSuggestion(candidate) ==
  IF \/ candidate.t = "null"
     \/ TypeOf(candidate) # "object"
     \/ ~In(LABEL, candidate)
     \/ ~In(REASON, candidate)
  THEN <<>>
  ELSE LET type == OptionalMember(candidate, TYPE)
           label == Member(candidate, LABEL)
           reason == Member(candidate, REASON)
       IN IF TypeOf(label) # "string" \/ TypeOf(reason) # "string" THEN <<>>
          ELSE << [type |-> IF TypeOf(type) = "string" THEN type.v
                            ELSE UNSPECIFIED,
                   label |-> Trim(label.v),
                   reason |-> Trim(reason.v)] >>

\* arr.map(normalizeSuggestion).filter(Boolean)
RECURSIVE NormalizedSuggestions(_)
NormalizedSuggestions(items) ==
  IF items = <<>> THEN <<>>
  ELSE normalizeSuggestion(Head(items)) \o NormalizedSuggestions(Tail(items))

RECURSIVE SkipNewlines(_)
SkipNewlines(s) ==
  IF s # <<>> /\ Head(s) = "\n" THEN SkipNewlines(Tail(s)) ELSE s

\* payload.split(/\n+/): the pieces between the runs of line breaks,
\* following piece, the one being read.
RECURSIVE SplitLines(_, _)
SplitLines(s, piece) ==
  IF s = <<>> THEN <<piece>>
  ELSE IF Head(s) = "\n" THEN <<piece>> \o SplitLines(SkipNewlines(s), <<>>)
  ELSE SplitLines(Tail(s), Append(piece, Head(s)))

\* lines.map(trim).filter(Boolean)
RECURSIVE TrimmedLines(_)
TrimmedLines(lines) ==
  IF lines = <<>> THEN <<>>
  ELSE (IF Trim(Head(lines)) = <<>> THEN <<>> ELSE <<Trim(Head(lines))>>)
       \o TrimmedLines(Tail(lines))

\* The last map of parseSuggestions, from the line at position index + 1.
RECURSIVE GenericSuggestions(_, _)
GenericSuggestions(lines, index) ==
  IF index >= Len(lines) THEN <<>>
  ELSE << [type |-> GENERIC,
           label |-> SUGGESTION_ \o NumberText(index + 1),
           reason |-> lines[index + 1]] >>
       \o GenericSuggestions(lines, index + 1)

parseSuggestions(payload) ==
  LET parsed == JSONParse(payload)
      arr == IF parsed.t = "array" THEN parsed
             ELSE OptionalMember(parsed, SUGGESTIONS)
  IN IF parsed # SyntaxError /\ arr.t = "array"
     THEN NormalizedSuggestions(arr.v)
     ELSE GenericSuggestions(TrimmedLines(SplitLines(payload, <<>>)), 0)

\* normalizeCriticalError without the two calls of trim.
normalizeCriticalError_Untrimmed(candidate) ==
  IF \/ candidate.t = "null"
     \/ TypeOf(candidate) # "object"
     \/ ~In(SPAN, candidate)
     \/ ~In(MESSAGE, candidate)
  THEN <<>>
  ELSE LET span == Member(candidate, SPAN)
           message == Member(candidate, MESSAGE)
       IN IF TypeOf(span) # "string" \/ TypeOf(message) # "string" THEN <<>>
          ELSE << [span |-> span.v, message |-> message.v] >>

normalizeCriticalError(candidate) ==
  IF \/ candidate.t = "null"
     \/ TypeOf(candidate) # "object"
     \/ ~In(SPAN, candidate)
     \/ ~In(MESSAGE, candidate)
  THEN <<>>
  ELSE LET span == Member(candidate, SPAN)
           message == Member(candidate, MESSAGE)
       IN IF TypeOf(span) # "string" \/ TypeOf(message) # "string" THEN <<>>
          ELSE << [span |-> Trim(span.v), message |-> Trim(message.v)] >>

\* parsed.map(normalizeCriticalError).filter(Boolean)
RECURSIVE NormalizedErrors(_)
NormalizedErrors(items) ==
  IF items = <<>> THEN <<>>
  ELSE normalizeCriticalError(Head(items)) \o NormalizedErrors(Tail(items))

parseCriticalErrors(payload) ==
  LET parsed == JSONParse(payload)
  IN IF parsed.t = "array" THEN NormalizedErrors(parsed.v) ELSE <<>>

\* versions.map(trimmed string or "").filter(non-empty)
RECURSIVE TrimmedVersions(_)
TrimmedVersions(entries) ==
  IF entries = <<>> THEN <<>>
  ELSE LET entry == IF TypeOf(Head(entries)) = "string"
                    THEN Trim(Head(entries).v) ELSE <<>>
       IN (IF Len(entry) > 0 THEN <<entry>> ELSE <<>>)
          \o TrimmedVersions(Tail(entries))

parseRewriteVersions(payload) ==
  LET versions == OptionalMember(JSONParse(payload), VERSIONS)
  IN IF versions.t = "array" THEN TrimmedVersions(versions.v) ELSE <<>>

\* The handlers, from the string callWithRetry returned.
handleAutocomplete(request, raw) == [completion |-> raw]

handleSuggestions(request, raw) == [suggestions |-> parseSuggestions(raw)]

handleCriticalErrors(request, raw) == [errors |-> parseCriticalErrors(raw)]

\* handleRewrite without its test of request.includeMultipleVersions.
handleRewrite_AlwaysVersions(request, raw) ==
  IF Len(parseRewriteVersions(raw)) > 0
  THEN [versions |-> parseRewriteVersions(raw),
        mode |-> request.mode, tone |-> request.tone]
  ELSE [text |-> raw, mode |-> request.mode, tone |-> request.tone]

handleRewrite(request, raw) ==
  IF request.includeMultipleVersions /\ Len(parseRewriteVersions(raw)) > 0
  THEN [versions |-> parseRewriteVersions(raw),
        mode |-> request.mode, tone |-> request.tone]
  ELSE [text |-> raw, mode |-> request.mode, tone |-> request.tone]

MessageTypes == {"autocomplete", "suggestions", "criticalErrors", "rewrite"}

\* routeRequest with the result types of its two middle cases exchanged.
routeRequest_ExchangedTypes(request, raw) ==
  CASE request.type = "autocomplete" ->
         [type |-> "autocompleteResult", data |-> handleAutocomplete(request, raw)]
    [] request.type = "suggestions" ->
         [type |-> "criticalErrorResult", data |-> handleSuggestions(request, raw)]
    [] request.type = "criticalErrors" ->
         [type |-> "suggestionsResult", data |-> handleCriticalErrors(request, raw)]
    [] request.type = "rewrite" ->
         [type |-> "rewriteResult", data |-> handleRewrite(request, raw)]

\* routeRequest after its handler's model call returned raw: the response.
routeRequest(request, raw) ==
  CASE request.type = "autocomplete" ->
         [type |-> "autocompleteResult", data |-> handleAutocomplete(request, raw)]
    [] request.type = "suggestions" ->
         [type |-> "suggestionsResult", data |-> handleSuggestions(request, raw)]
    [] request.type = "criticalErrors" ->
         [type |-> "criticalErrorResult", data |-> handleCriticalErrors(request, raw)]
    [] request.type = "rewrite" ->
         [type |-> "rewriteResult", data |-> handleRewrite(request, raw)]

\* The listener's catch: the error's message, sent in place of a response.
ErrorReply(message) == [error |-> message]

\* The worker's listener called with a request: routeRequest throws for a
\* type it has no case for, and calls the model through callWithRetry for
\* the others.  (calls keeps how each call of callModel made for the
\* request ended.)
onMessage(b, request) ==
  IF request.type \in MessageTypes
  THEN [request |-> <<request>>, calling |-> TRUE, attempt |-> 0,
        raw |-> <<>>, replies |-> <<>>, calls |-> <<>>]
  ELSE [request |-> <<request>>, calling |-> FALSE, attempt |-> 0,
        raw |-> <<>>, replies |-> <<ErrorReply("Unknown request type")>>,
        calls |-> <<>>]

\* callWithRetry whose loop ends one failure later.
callWithRetry_OneMore(b, outcome) ==
  IF outcome.ok
  THEN [b EXCEPT !.calling = FALSE, !.raw = <<outcome.text>>,
                 !.replies = Append(@, routeRequest(b.request[1], outcome.text))]
  ELSE IF b.attempt + 1 > MAX_RETRIES
  THEN [b EXCEPT !.calling = FALSE, !.attempt = @ + 1,
                 !.replies = Append(@, ErrorReply(outcome.error))]
  ELSE [b EXCEPT !.attempt = @ + 1]

\* callWithRetry when its call of callModel settles: the result goes to the
\* handler and the response to the sender; an error counts an attempt, and
\* the last attempt's error is thrown to the listener.
callWithRetry(b, outcome) ==
  IF outcome.ok
  THEN [b EXCEPT !.calling = FALSE, !.raw = <<outcome.text>>,
                 !.replies = Append(@, routeRequest(b.request[1], outcome.text))]
  ELSE IF b.attempt + 1 >= MAX_RETRIES
  THEN [b EXCEPT !.calling = FALSE, !.attempt = @ + 1,
                 !.replies = Append(@, ErrorReply(outcome.error))]
  ELSE [b EXCEPT !.attempt = @ + 1]

(***************************************************************************)
(* Preferences (preferences.ts, utils/storage.ts)                          *)
(***************************************************************************)

DEFAULT_PREFERENCES ==
  [rewriteMode |-> "cleaned", tone |-> "professional",
   overlayEnabled |-> TRUE, ghostTextEnabled |-> TRUE,
   suggestionsEnabled |-> TRUE, criticalErrorsEnabled |-> TRUE,
   includeMultipleVersions |-> FALSE, complexity |-> 5]

\* { ...a, ...b }
Spread(a, b) ==
  [key \in DOMAIN a \cup DOMAIN b |-> IF key \in DOMAIN b THEN b[key] ELSE a[key]]

\* The extension's contexts that load preferences.ts, each with a
\* preferenceManager of its own.
Contexts == {"popup", "content"}

\* new PreferenceManager(); storageListeners counts the listeners it has
\* added to chrome.storage.onChanged.
NewManager ==
  [value |-> DEFAULT_PREFERENCES, initialized |-> FALSE, storageListeners |-> 0]

\* The callback of chrome.storage.sync.get in syncGet, given the items read:
\* the item stored under the key, if there is one.
syncGet(result, defaultValue) ==
  IF result # <<>> THEN result[1] ELSE defaultValue

\* init() up to its await: nothing when initialized, a call of
\* chrome.storage.sync.get otherwise.
init(s, context) ==
  IF s.managers[context].initialized THEN s
  ELSE [s EXCEPT !.calls = Append(@, [op |-> "get", context |-> context,
                                       value |-> <<>>])]

\* init() after its await, given the items read.
initResolved(s, context, result) ==
  [s EXCEPT !.managers[context] =
     [value |-> Spread(DEFAULT_PREFERENCES, syncGet(result, DEFAULT_PREFERENCES)),
      initialized |-> TRUE,
      storageListeners |-> @.storageListeners + 1]]

\* update(partial) up to its await: the new value, and the call of
\* chrome.storage.sync.set with it.
update(s, context, partial) ==
  LET value == Spread(s.managers[context].value, partial)
  IN [s EXCEPT !.managers[context].value = value,
               !.calls = Append(@, [op |-> "set", context |-> context,
                                    value |-> <<value>>])]

\* One storage listener of a manager, called with the key's new value.
onChanged(s, context, newValue) ==
  [s EXCEPT !.managers[context].value = Spread(DEFAULT_PREFERENCES, newValue)]

\* chrome.storage.sync serves its calls in the order they were made.  The
\* callback of a get is on its way to the caller with the items read.  A
\* set stores the item; the contexts that listen are told when it changed,
\* and the caller's callback follows.
serveCall(s) ==
  LET call == Head(s.calls)
      changed == s.area # call.value
  IN IF call.op = "get"
     THEN [s EXCEPT
             !.calls = Tail(@),
             !.tasks = [context \in Contexts |->
                s.tasks[context]
                \o (IF context = call.context
                    THEN <<[kind |-> "get", result |-> s.area]>> ELSE <<>>)]]
     ELSE [s EXCEPT
             !.calls = Tail(@),
             !.area = call.value,
             !.tasks = [context \in Contexts |->
                s.tasks[context]
                \o (IF changed /\ s.managers[context].storageListeners > 0
                    THEN <<[kind |-> "changed", result |-> call.value]>>
                    ELSE <<>>)
                \o (IF context = call.context
                    THEN <<[kind |-> "set", result |-> <<>>]>> ELSE <<>>)]]

\* A context goes away with its manager, its listeners and the callbacks on
\* their way to it; the store still serves the calls of set it made, to no
\* caller.
unload(s, context) ==
  [s EXCEPT !.live[context] = FALSE,
            !.managers[context] = NewManager,
            !.tasks[context] = <<>>,
            !.calls = LET kept == SelectSeq(@, LAMBDA call :
                                   call.op = "set" \/ call.context # context)
                      IN [i \in 1..Len(kept) |->
                            IF kept[i].context = context
                            THEN [kept[i] EXCEPT !.context = None]
                            ELSE kept[i]]]

\* A context loads preferences.ts.
load(s, context) == [s EXCEPT !.live[context] = TRUE]

(***************************************************************************)
(* The popup (popup.ts)                                                    *)
(***************************************************************************)

PLEASE_ENTER == <<"Please enter a prompt to rewrite.">>
REWRITE_FAILED == <<"Rewrite failed. Please try again.">>

\* The popup's document and script as loaded, before initializePopup has
\* got the preferences: no listener is attached yet.
NewPopup ==
  [open |-> TRUE, ready |-> FALSE,
   state |-> [lastPayload |-> <<>>, tone |-> "professional", mode |-> "cleaned",
              includeMultipleVersions |-> FALSE, complexity |-> 5],
   inputEl |-> <<>>, modeEl |-> "cleaned", toneEl |-> "professional",
   outputEl |-> <<>>, versions |-> <<>>, loading |-> FALSE, sent |-> <<>>]

\* The controls for the four switches and the complexity output show the
\* preferences and are read by no handler; the model leaves them out.
applyPreferencesToUI(p, prefs) ==
  [p EXCEPT !.state.mode = prefs.rewriteMode,
            !.state.tone = prefs.tone,
            !.state.includeMultipleVersions = prefs.includeMultipleVersions,
            !.state.complexity = prefs.complexity,
            !.modeEl = prefs.rewriteMode,
            !.toneEl = prefs.tone]

\* sendRewriteRequest up to its await; override is a sequence of no payload
\* or one.
sendRewriteRequest(p, override) ==
  LET text == Trim(IF override # <<>> THEN override[1].text ELSE p.inputEl)
      mode == IF override # <<>> THEN override[1].mode ELSE p.modeEl
      tone == IF override # <<>> THEN override[1].tone ELSE p.toneEl
      includeMultipleVersions ==
        IF override # <<>> THEN override[1].includeMultipleVersions
        ELSE p.state.includeMultipleVersions
      complexity == IF override # <<>> THEN override[1].complexity
                    ELSE p.state.complexity
  IN IF text = <<>> THEN [p EXCEPT !.outputEl = PLEASE_ENTER]
     ELSE [p EXCEPT
             !.sent = <<[type |-> "rewrite", text |-> text, mode |-> mode,
                         tone |-> tone,
                         includeMultipleVersions |-> includeMultipleVersions,
                         complexity |-> complexity]>>,
             !.state.lastPayload =
                <<[text |-> text, mode |-> mode, tone |-> tone,
                   includeMultipleVersions |-> includeMultipleVersions,
                   complexity |-> complexity]>>,
             !.loading = TRUE,
             !.versions = <<>>,
             !.outputEl = <<>>]

\* regenerateRewrite passing no override.
regenerateRewrite_NoOverride(p) == sendRewriteRequest(p, <<>>)

regenerateRewrite(p) ==
  IF p.state.lastPayload = <<>> THEN sendRewriteRequest(p, <<>>)
  ELSE sendRewriteRequest(p, p.state.lastPayload)

handleRewriteResponse(p, result) ==
  IF "versions" \in DOMAIN result /\ Len(result.versions) > 0
  THEN [p EXCEPT !.outputEl = <<>>, !.versions = result.versions]
  ELSE [p EXCEPT !.versions = <<>>,
                 !.outputEl = IF "text" \in DOMAIN result THEN result.text
                              ELSE <<>>]

\* sendRewriteRequest after its await: the response, or the rejection of
\* sendRuntimeMessage.
rewriteSettled(p, ok, response) ==
  [(IF ok /\ response.type = "rewriteResult"
    THEN handleRewriteResponse(p, response.data)
    ELSE IF ok THEN p
    ELSE [p EXCEPT !.outputEl = REWRITE_FAILED])
   EXCEPT !.loading = FALSE]

\* initializePopup after its await of init(): the preferences go to the
\* controls, once from the call and once from subscribe, and the listeners
\* are attached.
popupInitialized(p, prefs) ==
  [applyPreferencesToUI(applyPreferencesToUI(p, prefs), prefs)
   EXCEPT !.ready = TRUE]

(***************************************************************************)
(* Inputs                                                                  *)
(***************************************************************************)

\* Completions the model returns ("" is an empty completion).
GhostTexts == { <<>>, <<"x">>, <<"&", "y">> }

Suggestion1 == [type |-> "context", label |-> "Add context", reason |-> <<"o", "k">>]
SuggestionLists == { <<>>, <<Suggestion1>> }

Error1 == [span |-> <<" ", "h", "<">>, message |-> <<"\"", "n">>]
Error2 == [span |-> <<"z">>, message |-> <<"m">>]
ErrorLists == { <<>>, <<Error2, Error1>> }

\* The characters of the texts the error markup is built for: a letter in
\* both cases, one whose lower case is longer than itself, white space and
\* two of the characters escapeHtml replaces (the error messages hold the
\* other three).
MarkupAlphabet == {"a", "A", "U+0130", " ", "&", "<"}

\* The longest text typed character by character.
MaxTextLen == 3

ErrorTwoLetters == [span |-> <<"a", "a">>, message |-> <<"&", "l", "t", ";">>]
ErrorLetterAndMark == [span |-> <<"a", "<">>, message |-> <<"\"", "'", ">">>]
ErrorPadded == [span |-> <<" ", "A", " ">>, message |-> <<"&", "<">>]
ErrorBlank == [span |-> <<" ">>, message |-> <<"b">>]
ErrorMissing == [span |-> <<"z">>, message |-> <<"z">>]

\* Error lists the background worker may return for such texts: spans that
\* occur, overlap, repeat, differ in case or padding, are blank or are missing.
MarkupErrorLists ==
  { <<>>,
    <<ErrorTwoLetters>>,
    <<ErrorLetterAndMark, ErrorTwoLetters>>,
    <<ErrorTwoLetters, ErrorLetterAndMark>>,
    <<ErrorTwoLetters, ErrorTwoLetters>>,
    <<ErrorBlank, ErrorPadded>>,
    <<ErrorPadded>>,
    <<ErrorMissing>>,
    <<ErrorMissing, ErrorTwoLetters>>,
    <<ErrorPadded, ErrorMissing, ErrorLetterAndMark>>,
    <<ErrorBlank>> }

\* The most pause listeners the model lets one element collect.
MaxPauseListeners == 2

\* The most requests the model lets wait for their responses at once.
MaxInFlight == 2

(***************************************************************************)
(* State                                                                   *)
(***************************************************************************)

W == [ctl |-> ctl, dom |-> dom, cs |-> cs]

\* The page after an operation of the overlay or the content script, which
\* run in the page: the worker, the popup and the store are other contexts.
Commit(w) ==
  /\ ctl' = w.ctl /\ dom' = w.dom /\ cs' = w.cs
  /\ UNCHANGED <<bg, popup, sync>>

\* What the operation just performed saw before it ran.
Pre == [target |-> ctl.target]

Did(op, arg) == last' = [op |-> op, arg |-> arg, pre |-> Pre]

NewDocument(present) ==
  [inDoc |-> present,
   value |-> [e \in Elements |-> <<>>],
   geom |-> "g1",
   roots |-> 0,
   tooltips |-> 0,
   inputListeners |-> [e \in Elements |-> 0],
   scrollListeners |-> [e \in Elements |-> 0],
   resizeObservers |-> [e \in Elements |-> 0],
   pauseListeners |-> [e \in Elements |-> 0],
   timeouts |-> {},
   idle |-> TYPING_PAUSE_MS,
   hover |-> <<>>]

\* The content script before it runs.
NoContentScript ==
  [observing |-> FALSE, activeInput |-> None, pauseTimer |-> <<>>,
   lastTextValue |-> <<>>, preferences |-> DefaultFlags, prefsLoaded |-> FALSE]

\* The background worker before a message reached it, the popup while it is
\* closed, and no preference manager loaded.
NoWorker ==
  [request |-> <<>>, calling |-> FALSE, attempt |-> 0, raw |-> <<>>,
   replies |-> <<>>, calls |-> <<>>]
NoPopup == [NewPopup EXCEPT !.open = FALSE]
\* history keeps, of the item the store held at first and of every partial
\* passed to update() since, each field's latest value.
NoSync ==
  [area |-> <<>>, calls |-> <<>>, history |-> <<>>,
   tasks |-> [context \in Contexts |-> <<>>],
   managers |-> [context \in Contexts |-> NewManager],
   live |-> [context \in Contexts |-> FALSE]]

\* The overlay module alone, loaded into a page: a new controller.
Init ==
  /\ ctl = NewController
  /\ \E present \in SUBSET Elements : dom = NewDocument(present)
  /\ cs = NoContentScript
  /\ net = EmptyBag
  /\ bg = NoWorker /\ popup = NoPopup /\ sync = NoSync
  /\ last = [op |-> "load", arg |-> None, pre |-> [target |-> None]]

(***************************************************************************)
(* The overlay's exported operations, called by any client                 *)
(***************************************************************************)

SetFlags ==
  \E flags \in AllFlags :
    /\ Commit(setFlags(W, flags))
    /\ Did("setFlags", flags)
    /\ UNCHANGED net

AttachToActiveTextarea ==
  /\ Commit(attachToActiveTextarea(W))
  /\ Did("attachToActiveTextarea", querySelector(dom, TEXTAREA_SELECTOR))
  /\ UNCHANGED net

SetTarget ==
  \E element \in Elements \cup {None} :
    /\ Commit(setTarget(W, element))
    /\ Did("setTarget", element)
    /\ UNCHANGED net

RenderGhostText ==
  \E completion \in GhostTexts :
    /\ Commit(renderGhostText(W, completion))
    /\ Did("renderGhostText", completion)
    /\ UNCHANGED net

RenderSuggestions ==
  \E suggestions \in SuggestionLists :
    /\ Commit(renderSuggestions(W, suggestions))
    /\ Did("renderSuggestions", suggestions)
    /\ UNCHANGED net

RenderCriticalErrors ==
  \E errors \in ErrorLists :
    /\ Commit(renderCriticalErrors(W, errors))
    /\ Did("renderCriticalErrors", errors)
    /\ UNCHANGED net

\* The underlines of the error layer, by their places in its markup.
Underlines(w) ==
  {i \in 1..Len(w.ctl.errorsLayer.html) : w.ctl.errorsLayer.html[i].kind = "underline"}

\* The pointer moves onto an underline of the error layer: mouseenter.
PointerEnters ==
  \E i \in Underlines(W) :
    /\ dom.hover # <<i>>
    /\ Commit(showTooltip([W EXCEPT !.dom.hover = <<i>>], i))
    /\ Did("mouseenter", i)
    /\ UNCHANGED net

\* The pointer moves off the underline it is over: mouseleave.
PointerLeaves ==
  /\ dom.hover # <<>>
  /\ Commit(hideTooltip([W EXCEPT !.dom.hover = <<>>]))
  /\ Did("mouseleave", dom.hover[1])
  /\ UNCHANGED net

ClearAll ==
  /\ Commit(clearAll(W))
  /\ Did("clearAll", None)
  /\ UNCHANGED net

(***************************************************************************)
(* The user and the page                                                   *)
(***************************************************************************)

\* The user edits an input of the page: its value changes and it fires input.
UserInput ==
  \E element \in dom.inDoc, text \in (IF cs.observing THEN TypedTexts ELSE ShortTexts) :
    /\ text # dom.value[element]
    /\ Commit(dispatchInput([W EXCEPT !.dom.value[element] = text], element))
    /\ Did("input", element)
    /\ UNCHANGED net

\* The same edit, with any of the texts a click may find.
UserInputBeforeClick ==
  \E element \in dom.inDoc, text \in ClickTexts :
    /\ text # dom.value[element]
    /\ Commit(dispatchInput([W EXCEPT !.dom.value[element] = text], element))
    /\ Did("input", element)
    /\ UNCHANGED net

\* An input scrolls its content: it fires scroll.
TargetScroll ==
  \E element \in dom.inDoc :
    /\ Commit(runLayoutCallbacks(W, dom.scrollListeners[element]))
    /\ Did("scroll", element)
    /\ UNCHANGED net

\* An input is resized: the resize observers observing it are called.
TargetResize ==
  \E element \in dom.inDoc, g \in Geoms :
    /\ g # dom.geom
    /\ Commit(runLayoutCallbacks([W EXCEPT !.dom.geom = g], dom.resizeObservers[element]))
    /\ Did("resize", element)
    /\ UNCHANGED net

\* The window scrolls or the page reflows around the inputs: no event reaches
\* the controller.
PageReflow ==
  \E g \in Geoms :
    /\ g # dom.geom
    /\ Commit([W EXCEPT !.dom.geom = g])
    /\ Did("reflow", g)
    /\ UNCHANGED net

\* The page inserts an input; the content script's MutationObserver runs.
InsertElement ==
  \E element \in Elements \ dom.inDoc :
    LET w == onMutation([W EXCEPT !.dom.inDoc = @ \cup {element}])
    IN /\ \A e \in Elements : w.dom.pauseListeners[e] <= MaxPauseListeners
       /\ Commit(w)
       /\ Did("insert", element)
       /\ UNCHANGED net

\* The page removes an input; the content script's MutationObserver runs.
RemoveElement ==
  \E element \in dom.inDoc :
    LET w == onMutation([W EXCEPT !.dom.inDoc = @ \ {element}])
    IN /\ \A e \in Elements : w.dom.pauseListeners[e] <= MaxPauseListeners
       /\ Commit(w)
       /\ Did("remove", element)
       /\ UNCHANGED net

\* The user types one more character into the target.
TypeCharacter ==
  \E c \in MarkupAlphabet :
    /\ ctl.target # None
    /\ Len(dom.value[ctl.target]) < MaxTextLen
    /\ Commit(dispatchInput([W EXCEPT !.dom.value[ctl.target] = @ \o <<c>>], ctl.target))
    /\ Did("input", ctl.target)
    /\ UNCHANGED net

\* The user goes on typing at the end of an input's text: a letter more, or
\* a long passage.  The text only grows, so of two texts the content script
\* read from the input the longer (also after trimming) is the later.
UserAppends ==
  \E element \in dom.inDoc, passage \in { <<"a">>, TWELVE_WORDS } :
    /\ Len(dom.value[element]) + Len(passage) <= Len(TWELVE_WORDS) + MaxTextLen
    /\ Commit(dispatchInput([W EXCEPT !.dom.value[element] = @ \o passage], element))
    /\ Did("input", element)
    /\ UNCHANGED net

\* The user deletes the target's last character.
DeleteCharacter ==
  /\ ctl.target # None
  /\ dom.value[ctl.target] # <<>>
  /\ Commit(dispatchInput(
       [W EXCEPT !.dom.value[ctl.target] = SubSeq(@, 1, Len(@) - 1)], ctl.target))
  /\ Did("input", ctl.target)
  /\ UNCHANGED net

\* renderCriticalErrors with an error list for the typed texts.
RenderMarkupErrors ==
  \E errors \in MarkupErrorLists :
    /\ Commit(renderCriticalErrors(W, errors))
    /\ Did("renderCriticalErrors", errors)
    /\ UNCHANGED net

\* The user clicks the i-th suggestion pill.
ClickSuggestion ==
  \E i \in 1..Len(ctl.suggestionsLayer.pills) :
    /\ ctl.suggestionsLayer.node /\ ~ctl.suggestionsLayer.hidden
    /\ ctl.target # None => dom.value[ctl.target] \in ClickTexts
    /\ Commit(applySuggestion(W, ctl.suggestionsLayer.pills[i]))
    /\ Did("click", i)
    /\ UNCHANGED net

(***************************************************************************)
(* The content script's own steps                                          *)
(***************************************************************************)

setOverlayFlags(w, prefs) ==
  setFlags(w, [overlayEnabled |-> prefs.overlayEnabled,
               ghostTextEnabled |-> prefs.ghostTextEnabled,
               suggestionsEnabled |-> prefs.suggestionsEnabled,
               criticalErrorsEnabled |-> prefs.criticalErrorsEnabled])

\* The callback the content script passes to init().then and to subscribe.
onPreferences(w, prefs) == setOverlayFlags([w EXCEPT !.cs.preferences = prefs], prefs)

\* The content script's top level: subscribe calls the listener at once with
\* the default preferences, then init() looks for an input and starts the
\* MutationObserver.  (The stylesheet link it injects is not modelled.)
loadContentScript(w) ==
  [locateTextInput(onPreferences(w, DefaultFlags)) EXCEPT !.cs.observing = TRUE]

\* The preferences the user stores: the defaults, or one switch turned off.
StoredPreferences ==
  {DefaultFlags} \cup
  {[DefaultFlags EXCEPT ![k] = FALSE] :
     k \in {"overlayEnabled", "ghostTextEnabled", "suggestionsEnabled",
            "criticalErrorsEnabled"}}

\* preferenceManager.init() resolves with the stored preferences.
PreferencesLoaded ==
  \E prefs \in StoredPreferences :
    /\ cs.observing /\ ~cs.prefsLoaded
    /\ Commit(onPreferences([W EXCEPT !.cs.prefsLoaded = TRUE], prefs))
    /\ Did("preferencesLoaded", prefs)
    /\ UNCHANGED net

\* The stored preferences change: the manager's storage listener, registered
\* by init(), emits the new value to the subscriber.
PreferencesChanged ==
  \E prefs \in StoredPreferences :
    /\ cs.prefsLoaded
    /\ prefs # cs.preferences
    /\ Commit(onPreferences(W, prefs))
    /\ Did("preferencesChanged", prefs)
    /\ UNCHANGED net

Request(type, text) == [type |-> type, text |-> text]

\* The requests the pause check sends for the trimmed text, given the
\* preferences at that moment.
requestAutocomplete(prefs, text) ==
  IF ~prefs.ghostTextEnabled \/ ~prefs.overlayEnabled THEN EmptyBag
  ELSE SetToBag({Request("autocomplete", text)})

requestSuggestions(prefs, text) ==
  IF ~prefs.suggestionsEnabled THEN EmptyBag
  ELSE SetToBag({Request("suggestions", text)})

requestCriticalErrors(prefs, text) ==
  IF ~prefs.criticalErrorsEnabled THEN EmptyBag
  ELSE SetToBag({Request("criticalErrors", text)})

\* The timeout callback of schedulePauseCheck.  idle, the time since the
\* last input event the content script heard, and the time left of each timeout only change where
\* time is modelled (Tick).
\* The callback's choice of requests without the word count: all three.
pauseRequests_NoWordCount(prefs, text) ==
  IF text = <<>> THEN EmptyBag
  ELSE requestAutocomplete(prefs, text) (+) requestSuggestions(prefs, text)
       (+) requestCriticalErrors(prefs, text)

\* The requests the callback sends for the trimmed text.
pauseRequests(prefs, text) ==
  IF text = <<>> THEN EmptyBag
  ELSE IF getWordCount(text) < WORD_THRESHOLD
  THEN requestAutocomplete(prefs, text)
  ELSE requestSuggestions(prefs, text) (+) requestCriticalErrors(prefs, text)

TimeoutFires(timeout) ==
  /\ timeout \in dom.timeouts
  /\ LET text == Trim(cs.lastTextValue)
         fired == [W EXCEPT !.dom.timeouts = @ \ {timeout}]
         sent == pauseRequests(cs.preferences, text)
     IN /\ BagCardinality(net (+) sent) <= MaxInFlight
        /\ Commit(IF text = <<>> THEN clearAll(fired) ELSE fired)
        /\ net' = net (+) sent
        /\ Did("pauseCheck", text)

\* A waiting timeout fires, at whatever time that is.
PauseTimerFires == \E timeout \in dom.timeouts : TimeoutFires(timeout)

\* Time passes: TICK_MS more since the last input event, TICK_MS less for
\* every waiting timeout.  idle stops counting at TYPING_PAUSE_MS.
TICK_MS == TYPING_PAUSE_MS \div 2

Tick ==
  /\ Commit([W EXCEPT
       !.dom.idle = IF @ + TICK_MS > TYPING_PAUSE_MS THEN TYPING_PAUSE_MS
                    ELSE @ + TICK_MS,
       !.dom.timeouts = {[t EXCEPT !.left = IF @ > TICK_MS THEN @ - TICK_MS ELSE 0] :
                           t \in @}])
  /\ Did("tick", None)
  /\ UNCHANGED net

\* A timeout fires when its time has passed, or later.
PauseTimerDue ==
  \E timeout \in dom.timeouts : timeout.left = 0 /\ TimeoutFires(timeout)

\* The user edits an input at some time: the input event, and, where the
\* content script's listener hears it, no time since.
UserInputAtTime ==
  \E element \in dom.inDoc, text \in TypedTexts :
    /\ text # dom.value[element]
    /\ Commit([dispatchInput([W EXCEPT !.dom.value[element] = text], element)
                 EXCEPT !.dom.idle = IF dom.pauseListeners[element] > 0 THEN 0 ELSE @])
    /\ Did("input", element)
    /\ UNCHANGED net

\* The response type that belongs to a request type.
ResponseTypeOf(type) ==
  CASE type = "autocomplete" -> "autocompleteResult"
    [] type = "suggestions" -> "suggestionsResult"
    [] type = "criticalErrors" -> "criticalErrorResult"
    [] type = "rewrite" -> "rewriteResult"

\* A promise, and the calls of its resolve and reject: the first settles
\* it, and calls counts them all.
NewPromise == [state |-> "pending", value |-> <<>>, calls |-> 0]

resolve(promise, value) ==
  IF promise.state = "pending"
  THEN [state |-> "fulfilled", value |-> <<value>>, calls |-> promise.calls + 1]
  ELSE [promise EXCEPT !.calls = @ + 1]

reject(promise, reason) ==
  IF promise.state = "pending"
  THEN [state |-> "rejected", value |-> <<reason>>, calls |-> promise.calls + 1]
  ELSE [promise EXCEPT !.calls = @ + 1]

NO_RESPONSE == "No response from background"

\* sendRuntimeMessage without its test for an error reply.
sendRuntimeMessage_NoErrorTest(runtimeError, response) ==
  IF runtimeError # <<>> THEN reject(NewPromise, runtimeError[1])
  ELSE IF response = <<>> THEN reject(NewPromise, NO_RESPONSE)
  ELSE resolve(NewPromise, response[1])

\* The callback sendRuntimeMessage gives to chrome.runtime.sendMessage,
\* called with chrome.runtime.lastError and the response, either of which
\* may be missing: the promise it leaves.
sendRuntimeMessage(runtimeError, response) ==
  IF runtimeError # <<>> THEN reject(NewPromise, runtimeError[1])
  ELSE IF response = <<>> THEN reject(NewPromise, NO_RESPONSE)
  ELSE IF "error" \in DOMAIN response[1]
  THEN reject(NewPromise, response[1].error)
  ELSE resolve(NewPromise, response[1])

\* A sender that clears the overlay when its request fails.
onResponse_ClearsOnFailure(w, request, ok, data) ==
  IF ~ok THEN clearAll(w)
  ELSE CASE request.type = "autocomplete" -> renderGhostText(w, data)
         [] request.type = "suggestions" -> renderSuggestions(w, data)
         [] request.type = "criticalErrors" -> renderCriticalErrors(w, data)

\* What a request's sender does with the response: a rejected promise, or a
\* response of another type, is dropped.
onResponse(w, request, ok, data) ==
  IF ~ok THEN w
  ELSE CASE request.type = "autocomplete" -> renderGhostText(w, data)
         [] request.type = "suggestions" -> renderSuggestions(w, data)
         [] request.type = "criticalErrors" -> renderCriticalErrors(w, data)

\* requestAutocomplete, requestSuggestions and requestCriticalErrors after
\* their await of sendRuntimeMessage, given the promise it left: the data
\* of a response of the request's type is rendered.
afterSend(w, request, promise) ==
  IF promise.state = "fulfilled"
     /\ promise.value[1].type = ResponseTypeOf(request.type)
  THEN onResponse(w, request, TRUE,
         CASE request.type = "autocomplete" -> promise.value[1].data.completion
           [] request.type = "suggestions" -> promise.value[1].data.suggestions
           [] request.type = "criticalErrors" -> promise.value[1].data.errors)
  ELSE onResponse(w, request, FALSE, None)

\* The results the background worker returns.
Completions == { <<>>, <<"x">> }

ResultsFor(type) ==
  CASE type = "autocomplete" -> Completions
    [] type = "suggestions" -> SuggestionLists
    [] type = "criticalErrors" -> ErrorLists

\* The background worker answers a waiting request with a result.
ResponseArrives ==
  \E request \in BagToSet(net) :
    \E data \in ResultsFor(request.type) :
      /\ net' = net (-) SetToBag({request})
      /\ Commit(onResponse(W, request, TRUE, data))
      /\ Did("response", [request |-> request, ok |-> TRUE, data |-> data])

\* A waiting request fails: the runtime reports an error, or the worker
\* answers with an error object or with nothing.
RequestFails ==
  \E request \in BagToSet(net) :
    /\ net' = net (-) SetToBag({request})
    /\ Commit(onResponse(W, request, FALSE, None))
    /\ Did("response", [request |-> request, ok |-> FALSE, data |-> None])

\* The result of type, as the worker's response wraps it.
ResponseOf(type, data) ==
  [type |-> ResponseTypeOf(type),
   data |-> CASE type = "autocomplete" -> [completion |-> data]
              [] type = "suggestions" -> [suggestions |-> data]
              [] type = "criticalErrors" -> [errors |-> data]]

\* A waiting request is answered with a response of another type than its
\* own.
OtherResponseArrives ==
  \E request \in BagToSet(net) :
    \E type \in {"autocomplete", "suggestions", "criticalErrors"} \ {request.type} :
      \E data \in ResultsFor(type) :
        LET response == ResponseOf(type, data)
        IN /\ net' = net (-) SetToBag({request})
           /\ Commit(afterSend(W, request, sendRuntimeMessage(<<>>, <<response>>)))
           /\ Did("otherResponse", [request |-> request, type |-> response.type])

(***************************************************************************)
(* The background worker's steps                                           *)
(***************************************************************************)

\* The requests that reach the worker: those of the content script and the
\* popup, and messages of types it has no case for.
RewriteRequests ==
  [type : {"rewrite"}, text : {<<"a">>}, mode : {"cleaned", "power"},
   tone : {"professional", "casual"}, includeMultipleVersions : BOOLEAN,
   complexity : {5}]

WorkerRequests ==
  {Request(type, <<"a">>) :
     type \in {"autocomplete", "suggestions", "criticalErrors",
               "getActivePrompt", "rewriteResult"}}
  \cup RewriteRequests

\* What the fetch of callModel ends with: a failed request, or a body whose
\* content is missing or empty, blank, a JSON text or another text.
HttpOutcomes ==
  {[ok |-> FALSE, content |-> <<>>]}
  \cup {[ok |-> TRUE, content |-> content] :
          content \in {JSONText(value) : value \in JSONValues}
                      \cup PlainTexts
                      \cup { <<>>, <<" ">>,
                             <<"\n", "a", "\n", " ", "\n", "b", " ">> }}

\* A message reaches the worker while it handles no other.
WorkerReceives ==
  \E request \in WorkerRequests :
    /\ ~bg.calling
    /\ bg' = onMessage(bg, request)
    /\ UNCHANGED <<ctl, dom, cs, net, last, popup, sync>>

\* The model call the worker waits for settles.
ModelCallSettles ==
  \E http \in HttpOutcomes :
    /\ bg.calling
    /\ bg' = [callWithRetry(bg, callModel(http)) EXCEPT
                !.calls = Append(@, [ok |-> callModel(http).ok,
                                     error |-> callModel(http).error])]
    /\ UNCHANGED <<ctl, dom, cs, net, last, popup, sync>>

\* chrome.runtime hands a message that waits to the worker's listener.
MessageDelivered ==
  \E request \in BagToSet(net) :
    /\ bg.request = <<>>
    /\ bg' = onMessage(bg, request)
    /\ Did("delivered", request)
    /\ UNCHANGED <<ctl, dom, cs, net, popup, sync>>

\* A context sends a message and waits for the callback.
MessageSent ==
  \E request \in WorkerRequests :
    /\ net = EmptyBag
    /\ net' = SetToBag({request})
    /\ Did("send", request)
    /\ UNCHANGED <<ctl, dom, cs, bg, popup, sync>>

\* The sender's callback runs for one call of chrome.runtime.sendMessage.
Settled(request, runtimeError, response) ==
  /\ net' = net (-) SetToBag({request})
  /\ bg' = NoWorker
  /\ Did("settled", [request |-> request, runtimeError |-> runtimeError,
                     response |-> response,
                     promise |-> sendRuntimeMessage(runtimeError, response)])
  /\ UNCHANGED <<ctl, dom, cs, popup, sync>>

\* The callback runs with what the listener passed to sendResponse.
CallbackRuns ==
  \E request \in BagToSet(net) :
    /\ bg.request = <<request>>
    /\ bg.replies # <<>>
    /\ Settled(request, <<>>, <<bg.replies[1]>>)

\* The runtime's errors: no listener, or the worker gone before its reply.
RuntimeErrors ==
  { "Could not establish connection. Receiving end does not exist.",
    "The message port closed before a response was received." }

\* The callback runs with no response: with chrome.runtime.lastError set,
\* or with nothing at all.
RuntimeFails ==
  \E request \in BagToSet(net) :
    \E runtimeError \in {<<>>} \cup {<<error>> : error \in RuntimeErrors} :
      /\ bg.replies = <<>>
      /\ Settled(request, runtimeError, <<>>)

(***************************************************************************)
(* The store's, the popup's and the content script's preference steps      *)
(***************************************************************************)

\* The most calls of chrome.storage.sync and callbacks of it the model lets
\* wait at once.
MaxPending == 2

Pending == Len(sync.calls) + Len(sync.tasks["popup"]) + Len(sync.tasks["content"])

\* What chrome.storage.sync holds under the key when the browser starts:
\* nothing, an item written by update(), or an item without the fields a
\* later version added.
StoredItems ==
  { <<>>,
    <<[DEFAULT_PREFERENCES EXCEPT !.overlayEnabled = FALSE]>>,
    <<[tone |-> "casual", ghostTextEnabled |-> FALSE]>> }

\* The one-field updates the popup's controls make: those of the switches
\* and the tone, and those of the options a rewrite request carries.
PopupChanges ==
  {[tone |-> "casual"], [overlayEnabled |-> FALSE], [overlayEnabled |-> TRUE],
   [ghostTextEnabled |-> FALSE]}

RewriteOptionChanges ==
  {[rewriteMode |-> "power"], [includeMultipleVersions |-> TRUE],
   [complexity |-> 7]}

StoreServesCall ==
  /\ sync.calls # <<>>
  /\ sync' = serveCall(sync)
  /\ Did("serveCall", Head(sync.calls).op)
  /\ UNCHANGED <<ctl, dom, cs, net, bg, popup>>

\* The user opens the popup: popup.ts runs up to the await of init().
PopupOpens ==
  /\ ~sync.live["popup"]
  /\ popup' = NewPopup
  /\ sync' = init(load(sync, "popup"), "popup")
  /\ Did("openPopup", None)
  /\ UNCHANGED <<ctl, dom, cs, net, bg>>

\* The popup closes, at any moment.
PopupCloses ==
  /\ sync.live["popup"]
  /\ popup' = NoPopup
  /\ sync' = unload(sync, "popup")
  /\ Did("closePopup", None)
  /\ UNCHANGED <<ctl, dom, cs, net, bg>>

\* The manager's emit in the popup: applyPreferencesToUI, once subscribed.
popupEmit(p, s) ==
  IF p.ready THEN applyPreferencesToUI(p, s.managers["popup"].value) ELSE p

\* The popup runs the oldest callback of the store on its way to it: the
\* rest of init() and initializePopup, a storage listener, or the rest of
\* update().
PopupRunsTask ==
  /\ sync.tasks["popup"] # <<>>
  /\ LET task == Head(sync.tasks["popup"])
         rest == [sync EXCEPT !.tasks["popup"] = Tail(@)]
         s == CASE task.kind = "get" -> initResolved(rest, "popup", task.result)
                [] task.kind = "changed" -> onChanged(rest, "popup", task.result[1])
                [] task.kind = "set" -> rest
     IN /\ sync' = s
        /\ popup' = IF task.kind = "get"
                    THEN (IF popup.ready THEN popup
                          ELSE popupInitialized(popup, s.managers["popup"].value))
                    ELSE popupEmit(popup, s)
        /\ Did("popupTask", task.kind)
  /\ UNCHANGED <<ctl, dom, cs, net, bg>>

\* Code of the popup calls init() of its manager once more, at any moment
\* after initializePopup did: nothing follows the call but init() itself.
InitCalledAgain ==
  /\ sync.live["popup"]
  /\ Pending < MaxPending
  /\ sync' = init(sync, "popup")
  /\ Did("init", sync.managers["popup"].initialized)
  /\ UNCHANGED <<ctl, dom, cs, net, bg, popup>>

\* The four switches among the preferences, which are all the content
\* script reads of them.
FlagsOf(prefs) ==
  [overlayEnabled |-> prefs.overlayEnabled,
   ghostTextEnabled |-> prefs.ghostTextEnabled,
   suggestionsEnabled |-> prefs.suggestionsEnabled,
   criticalErrorsEnabled |-> prefs.criticalErrorsEnabled]

\* The content script runs the oldest callback of the store on its way to
\* it: the rest of init() and the callback of its then, or a storage
\* listener, whose emit calls the subscriber.
ContentRunsTask ==
  /\ sync.tasks["content"] # <<>>
  /\ LET task == Head(sync.tasks["content"])
         rest == [sync EXCEPT !.tasks["content"] = Tail(@)]
         s == CASE task.kind = "get" -> initResolved(rest, "content", task.result)
                [] task.kind = "changed" -> onChanged(rest, "content", task.result[1])
                [] task.kind = "set" -> rest
         w == onPreferences(
                IF task.kind = "get" THEN [W EXCEPT !.cs.prefsLoaded = TRUE] ELSE W,
                FlagsOf(s.managers["content"].value))
     IN /\ sync' = s
        /\ ctl' = w.ctl /\ dom' = w.dom /\ cs' = w.cs
        /\ Did("contentTask", task.kind)
  /\ UNCHANGED <<net, bg, popup>>

\* The change and input listeners of the popup's preference controls: the
\* ones for mode, tone, versions and complexity keep the value in state.
controlChanged(p, partial) ==
  [p EXCEPT
     !.state.mode = IF "rewriteMode" \in DOMAIN partial
                    THEN partial.rewriteMode ELSE @,
     !.modeEl = IF "rewriteMode" \in DOMAIN partial
                THEN partial.rewriteMode ELSE @,
     !.state.tone = IF "tone" \in DOMAIN partial THEN partial.tone ELSE @,
     !.toneEl = IF "tone" \in DOMAIN partial THEN partial.tone ELSE @,
     !.state.includeMultipleVersions =
        IF "includeMultipleVersions" \in DOMAIN partial
        THEN partial.includeMultipleVersions ELSE @,
     !.state.complexity = IF "complexity" \in DOMAIN partial
                          THEN partial.complexity ELSE @]

\* The user changes one of the popup's preference controls.
ChangePreference(partial) ==
  /\ popup.open /\ popup.ready
  /\ Pending < MaxPending
  /\ popup' = controlChanged(popup, partial)
  /\ sync' = [update(sync, "popup", partial) EXCEPT
                !.history = Spread(@, partial)]
  /\ Did("update", partial)
  /\ UNCHANGED <<ctl, dom, cs, net, bg>>

PopupChangesPreference == \E partial \in PopupChanges : ChangePreference(partial)

PopupChangesRewriteOption ==
  \E partial \in RewriteOptionChanges : ChangePreference(partial)

\* The prompts the popup's input holds: typed by the user or imported from
\* the page by importActivePrompt.
PopupTexts == { <<>>, <<" ", "b", " ">> }

PopupInputChanges ==
  \E text \in PopupTexts :
    /\ popup.open
    /\ text # popup.inputEl
    /\ popup' = [popup EXCEPT !.inputEl = text]
    /\ Did("popupInput", text)
    /\ UNCHANGED <<ctl, dom, cs, net, bg, sync>>

\* The buttons are disabled while a rewrite request waits for its response.
ClickRewrite ==
  /\ popup.open /\ popup.ready /\ ~popup.loading
  /\ popup' = sendRewriteRequest(popup, <<>>)
  /\ Did("rewrite", None)
  /\ UNCHANGED <<ctl, dom, cs, net, bg, sync>>

ClickRegenerate ==
  /\ popup.open /\ popup.ready /\ ~popup.loading
  /\ popup' = regenerateRewrite(popup)
  /\ Did("regenerate", None)
  /\ UNCHANGED <<ctl, dom, cs, net, bg, sync>>

\* The responses to the popup's rewrite request: the results of the worker
\* for it, and a response of another type.
RewriteResponses(request) ==
  {[type |-> "rewriteResult", data |-> handleRewrite(request, raw)] :
     raw \in { <<"r">>,
               JSONText(JObj(<< <<VERSIONS, JArr(<<JStr(<<"v">>)>>)>> >>)) }}
  \cup {[type |-> "autocompleteResult", data |-> [completion |-> <<"r">>]]}

\* The popup's request is answered, or fails: a runtime error, no response,
\* or an error reply.
RewriteSettles ==
  /\ popup.open /\ popup.loading
  /\ \E ok \in BOOLEAN :
       \E response \in RewriteResponses(popup.sent[1]) :
         /\ popup' = rewriteSettled(popup, ok, response)
         /\ Did("rewriteSettled", ok)
  /\ UNCHANGED <<ctl, dom, cs, net, bg, sync>>

(***************************************************************************)
(* Specifications                                                          *)
(***************************************************************************)

\* The overlay module driven by any client through its exported operations.
Next ==
  \/ SetFlags
  \/ AttachToActiveTextarea
  \/ SetTarget
  \/ RenderGhostText
  \/ RenderSuggestions
  \/ RenderCriticalErrors
  \/ ClearAll
  \/ UserInput
  \/ InsertElement
  \/ RemoveElement

Spec == Init /\ [][Next]_vars

\* The content script loaded into a page whose inputs stay in place.  (The
\* clicks on suggestion pills are in SpecClick.)
InitSystem ==
  /\ \E present \in SUBSET Elements :
       LET w == loadContentScript(
                  [ctl |-> NewController, dom |-> NewDocument(present),
                   cs |-> NoContentScript])
       IN ctl = w.ctl /\ dom = w.dom /\ cs = w.cs
  /\ net = EmptyBag
  /\ bg = NoWorker /\ popup = NoPopup /\ sync = NoSync
  /\ last = [op |-> "load", arg |-> None, pre |-> [target |-> None]]

NextSystem ==
  \/ PreferencesLoaded
  \/ PreferencesChanged
  \/ UserInput
  \/ PauseTimerFires
  \/ ResponseArrives
  \/ RequestFails

SpecSystem == InitSystem /\ [][NextSystem]_vars

\* The content script under the preferences it loaded, with requests that
\* are answered, rejected, or answered with a response of another type.
NextFailure ==
  \/ PreferencesLoaded
  \/ UserInput
  \/ PauseTimerFires
  \/ ResponseArrives
  \/ RequestFails
  \/ OtherResponseArrives

SpecFailure == InitSystem /\ [][NextFailure]_vars

\* The overlay following its target while the page scrolls, resizes and reflows.
NextLayout ==
  \/ SetFlags
  \/ AttachToActiveTextarea
  \/ SetTarget
  \/ UserInput
  \/ TargetScroll
  \/ TargetResize
  \/ PageReflow
  \/ InsertElement
  \/ RemoveElement

SpecLayout == Init /\ [][NextLayout]_vars

\* The overlay module with error lists rendered, the user typing, and the
\* pointer moving onto and off the underlines.
NextTooltip ==
  \/ SetFlags
  \/ AttachToActiveTextarea
  \/ RenderCriticalErrors
  \/ ClearAll
  \/ UserInput
  \/ PointerEnters
  \/ PointerLeaves

SpecTooltip == Init /\ [][NextTooltip]_vars

\* The content script on a page that inserts and removes its inputs.
NextPage ==
  \/ PreferencesLoaded
  \/ PreferencesChanged
  \/ UserInput
  \/ InsertElement
  \/ RemoveElement

SpecPage == InitSystem /\ [][NextPage]_vars

\* The content script's page with suggestions on screen and a user who edits
\* the input and clicks the pills.
NextClick ==
  \/ UserInputBeforeClick
  \/ RenderGhostText
  \/ RenderSuggestions
  \/ ClickSuggestion

SpecClick == InitSystem /\ [][NextClick]_vars

\* The overlay attached to the page's one input, whose text grows and
\* shrinks by a character while error lists and completions are rendered:
\* escapeHtml and buildErrorMarkup over every text of the alphabet.
InitMarkup ==
  /\ LET w == attachToActiveTextarea(
                [ctl |-> NewController, dom |-> NewDocument({"A"}),
                 cs |-> NoContentScript])
     IN ctl = w.ctl /\ dom = w.dom /\ cs = w.cs
  /\ net = EmptyBag
  /\ bg = NoWorker /\ popup = NoPopup /\ sync = NoSync
  /\ last = [op |-> "attachToActiveTextarea", arg |-> "A", pre |-> [target |-> None]]

NextMarkup ==
  \/ TypeCharacter
  \/ DeleteCharacter
  \/ RenderMarkupErrors
  \/ RenderGhostText

SpecMarkup == InitMarkup /\ [][NextMarkup]_vars

\* The background worker answering one message after another.
NextWorker ==
  \/ WorkerReceives
  \/ ModelCallSettles

SpecWorker == Init /\ [][NextWorker]_vars

\* The same, where every fetch of callModel settles and every delay ends.
SpecWorkerFair == SpecWorker /\ WF_vars(ModelCallSettles)

\* A context sends one message after another to the worker; chrome.runtime
\* calls the sender's callback for each, the worker's model calls settle
\* and its reply reaches the callback unless the runtime failed first.
NextMessage ==
  \/ MessageSent
  \/ MessageDelivered
  \/ ModelCallSettles
  \/ CallbackRuns
  \/ RuntimeFails

SpecMessage ==
  /\ Init /\ [][NextMessage]_vars
  /\ WF_vars(MessageDelivered \/ RuntimeFails)
  /\ WF_vars(ModelCallSettles)
  /\ WF_vars(CallbackRuns \/ RuntimeFails)

\* The popup over an empty store; no page.
InitPopup ==
  /\ ctl = NewController
  /\ dom = NewDocument({})
  /\ cs = NoContentScript
  /\ net = EmptyBag
  /\ bg = NoWorker
  /\ popup = NoPopup
  /\ sync = NoSync
  /\ last = [op |-> "load", arg |-> None, pre |-> [target |-> None]]

\* The user opens the popup, changes its controls and asks for rewrites.
NextPopup ==
  \/ PopupOpens
  \/ StoreServesCall
  \/ PopupRunsTask
  \/ PopupChangesRewriteOption
  \/ PopupInputChanges
  \/ ClickRewrite
  \/ ClickRegenerate
  \/ RewriteSettles

SpecPopup == InitPopup /\ [][NextPopup]_vars

\* The popup opened, used and closed again and again over a store that
\* holds any of the stored items; no page.
InitPreferences ==
  /\ ctl = NewController
  /\ dom = NewDocument({})
  /\ cs = NoContentScript
  /\ net = EmptyBag
  /\ bg = NoWorker
  /\ popup = NoPopup
  /\ \E item \in StoredItems :
       sync = [NoSync EXCEPT !.area = item,
                             !.history = IF item = <<>> THEN <<>> ELSE item[1]]
  /\ last = [op |-> "load", arg |-> None, pre |-> [target |-> None]]

NextPreferences ==
  \/ PopupOpens
  \/ PopupCloses
  \/ StoreServesCall
  \/ PopupRunsTask
  \/ PopupChangesPreference

SpecPreferences == InitPreferences /\ [][NextPreferences]_vars

\* The popup opened and closed over any stored item, with init() of its
\* manager called again and again.
NextInit ==
  \/ PopupOpens
  \/ PopupCloses
  \/ StoreServesCall
  \/ PopupRunsTask
  \/ PopupChangesPreference
  \/ InitCalledAgain

SpecInit == InitPreferences /\ [][NextInit]_vars

\* The content script loaded into a page, up to the await of its init(),
\* over a store that holds any of the stored items, and the popup changing
\* the switches.
InitFlags ==
  /\ \E present \in SUBSET Elements :
       LET w == loadContentScript(
                  [ctl |-> NewController, dom |-> NewDocument(present),
                   cs |-> NoContentScript])
       IN ctl = w.ctl /\ dom = w.dom /\ cs = w.cs
  /\ net = EmptyBag
  /\ bg = NoWorker
  /\ popup = NoPopup
  /\ \E item \in StoredItems :
       sync = init(load([NoSync EXCEPT !.area = item], "content"), "content")
  /\ last = [op |-> "load", arg |-> None, pre |-> [target |-> None]]

NextFlags ==
  \/ StoreServesCall
  \/ ContentRunsTask
  \/ PopupOpens
  \/ PopupRunsTask
  \/ PopupChangesPreference

SpecFlags == InitFlags /\ [][NextFlags]_vars

\* The content script on a page with one input, whose text only grows, and
\* the worker's answers in any order.
InitStale ==
  /\ LET w == loadContentScript(
                [ctl |-> NewController, dom |-> NewDocument({"A"}),
                 cs |-> NoContentScript])
     IN ctl = w.ctl /\ dom = w.dom /\ cs = w.cs
  /\ net = EmptyBag
  /\ bg = NoWorker /\ popup = NoPopup /\ sync = NoSync
  /\ last = [op |-> "load", arg |-> None, pre |-> [target |-> None]]

NextStale ==
  \/ PreferencesLoaded
  \/ UserAppends
  \/ PauseTimerFires
  \/ ResponseArrives

SpecStale == InitStale /\ [][NextStale]_vars

\* The content script on a static page, with time: input events at any
\* time, timeouts that fire when due or later.
NextPause ==
  \/ PreferencesLoaded
  \/ UserInputAtTime
  \/ Tick
  \/ PauseTimerDue
  \/ ResponseArrives

SpecPause == InitSystem /\ [][NextPause]_vars

(***************************************************************************)
(* Properties                                                              *)
(***************************************************************************)

Shown(layer) == layer.node /\ ~layer.hidden

ListenerCount(e) ==
  dom.inputListeners[e] + dom.scrollListeners[e] + dom.resizeObservers[e]

\* C1: the document holds one visual tree (a root with its layers, and a
\* tooltip) exactly when overlay-enabled is true and the controller has a
\* target, and none otherwise; it never holds two.
C1_OneTreeIffEnabledAndTarget ==
  LET n == IF ctl.flags.overlayEnabled /\ ctl.target # None THEN 1 ELSE 0
  IN /\ dom.roots = n
     /\ dom.tooltips = n
     /\ \A node \in {ctl.root.node, ctl.textLayer.node, ctl.ghostLayer.node,
                     ctl.errorsLayer.node, ctl.suggestionsLayer.node,
                     ctl.tooltip.node} : node <=> (n = 1)

\* setFlags has run on a controller that already had its tree.
C1_Witness ==
  /\ last.op = "setFlags" /\ last.arg.overlayEnabled
  /\ last.pre.target # None
  /\ dom.roots = 1

\* C3: after setFlags with overlayEnabled false the document holds no root
\* and no tooltip, and no element carries an input listener, a scroll
\* listener or a resize observer of the controller.
C3_OverlayOffTearsDown ==
  (last.op = "setFlags" /\ ~last.arg.overlayEnabled) =>
    /\ dom.roots = 0
    /\ dom.tooltips = 0
    /\ \A e \in Elements : ListenerCount(e) = 0

\* setFlags(overlay off) has run on an attached controller.
C3_Witness ==
  /\ last.op = "setFlags" /\ ~last.arg.overlayEnabled
  /\ last.pre.target # None
  /\ dom.roots = 0

\* C6: setTarget (or attachToActiveTextarea) with the element that is the
\* current target changes nothing of the controller or the document, and the
\* element keeps one input listener, one scroll listener and one resize
\* observer.
C6_SameTargetIsNoOp ==
  [][(/\ last'.op \in {"setTarget", "attachToActiveTextarea"}
      /\ ctl.target # None
      /\ last'.arg = ctl.target)
     => (/\ ctl' = ctl
         /\ dom' = dom
         /\ dom'.inputListeners[ctl.target] = 1
         /\ dom'.scrollListeners[ctl.target] = 1
         /\ dom'.resizeObservers[ctl.target] = 1)]_vars

\* setTarget has been called with the element already tracked.
C6_Witness ==
  /\ last.op = "setTarget"
  /\ last.arg # None
  /\ last.pre.target = last.arg
  /\ ctl.target = last.arg

\* C7: the controller's input listener, scroll listener and resize observer
\* are on the current target, one of each, and on no other element; with a
\* target there is one visual tree.
C7_ListenersOnlyOnTarget ==
  /\ \A e \in Elements :
       LET n == IF e = ctl.target THEN 1 ELSE 0
       IN /\ dom.inputListeners[e] = n
          /\ dom.scrollListeners[e] = n
          /\ dom.resizeObservers[e] = n
  /\ ctl.target # None => dom.roots = 1

\* attach(A) then attach(B).
C7_Witness ==
  /\ last.op = "setTarget"
  /\ last.pre.target = "A"
  /\ last.arg = "B"
  /\ ctl.target = "B"
  /\ ListenerCount("B") = 3
  /\ ListenerCount("A") = 0

\* The ghost markup updateGhostLayer writes for a completion on the target.
GhostMarkup(completion) ==
  <<[class |-> "refine-ghost-prefix", text |-> escapeHtml(dom.value[ctl.target])],
    [class |-> "refine-ghost-completion", text |-> escapeHtml(completion)]>>

GhostHiddenAndEmpty == ctl.ghostLayer.hidden /\ ctl.ghostLayer.html = <<>>

\* C2: a completion computed for a text that is no longer the target's
\* current text is dropped: when the handling of an autocomplete response
\* leaves ghost text on screen, the request's text is the target's current
\* (trimmed) text.
C2_StaleCompletionDropped ==
  (/\ last.op = "response"
   /\ last.arg.ok
   /\ last.arg.request.type = "autocomplete"
   /\ Shown(ctl.ghostLayer))
  => (/\ ctl.target # None
      /\ last.arg.request.text = Trim(dom.value[ctl.target]))

\* The layers show the stored ghost text, suggestions and errors, each
\* subject to its flag.
LayersShowStoredState ==
  /\ (ctl.flags.ghostTextEnabled /\ ctl.ghostCompletion # <<>>) =>
       (Shown(ctl.ghostLayer) /\ ctl.ghostLayer.html = GhostMarkup(ctl.ghostCompletion))
  /\ (ctl.flags.suggestionsEnabled /\ ctl.suggestions # <<>>) =>
       (Shown(ctl.suggestionsLayer) /\ ctl.suggestionsLayer.pills = ctl.suggestions)
  /\ (ctl.flags.criticalErrorsEnabled /\ ctl.errors # <<>>) =>
       (ctl.errorsLayer.node
        /\ ctl.errorsLayer.html = buildErrorMarkup(ctl.currentText, ctl.errors))

\* C4: setFlags(overlay off) followed by setFlags(overlay on), the former
\* target still being in the document and attached again, leaves the layers
\* showing the most recently set ghost text, suggestions and errors.
C4_ReenableRestoresLayers ==
  [][(/\ last.op = "setFlags" /\ ~last.arg.overlayEnabled
      /\ last.pre.target # None
      /\ last'.op = "setFlags" /\ last'.arg.overlayEnabled
      /\ ctl'.target = last.pre.target)
     => LayersShowStoredState']_vars

\* What a controller holds and shows: its fields, its listeners, and the
\* content of each layer that is on screen.
Observable(w) ==
  [target |-> w.ctl.target, flags |-> w.ctl.flags,
   ghostCompletion |-> w.ctl.ghostCompletion, suggestions |-> w.ctl.suggestions,
   errors |-> w.ctl.errors, currentText |-> w.ctl.currentText,
   roots |-> w.dom.roots, tooltips |-> w.dom.tooltips,
   inputListeners |-> w.dom.inputListeners,
   scrollListeners |-> w.dom.scrollListeners,
   resizeObservers |-> w.dom.resizeObservers,
   ghost |-> IF Shown(w.ctl.ghostLayer) THEN w.ctl.ghostLayer.html ELSE <<>>,
   pills |-> IF Shown(w.ctl.suggestionsLayer) THEN w.ctl.suggestionsLayer.pills ELSE <<>>,
   underlines |-> w.ctl.errorsLayer.html]

\* C5: setFlags is idempotent: after setFlags(f), a second setFlags(f)
\* changes nothing of the controller state or of what the layers show.
C5_SetFlagsIdempotent ==
  last.op = "setFlags" => Observable(setFlags(W, last.arg)) = Observable(W)

\* C8: after an input event on the target the pending completion is cleared
\* and the ghost layer is hidden and empty.
C8_InputClearsGhost ==
  (last.op = "input" /\ last.arg = ctl.target /\ ctl.ghostLayer.node) =>
    (ctl.ghostCompletion = <<>> /\ GhostHiddenAndEmpty)

\* C9: with overlay enabled and a target attached, the ghost layer is hidden
\* and empty whenever the ghost-enabled flag is false.
C9_DisabledGhostIsHidden ==
  (ctl.flags.overlayEnabled /\ ctl.target # None /\ ~ctl.flags.ghostTextEnabled) =>
    (ctl.ghostLayer.node /\ GhostHiddenAndEmpty)

\* C10: after renderGhostText("") the ghost layer is hidden and empty,
\* whatever was rendered before; after renderGhostText(t), t not empty, it
\* shows the target's value as prefix and t as completion.
C10_GhostIsLastArgument ==
  (last.op = "renderGhostText" /\ ctl.ghostLayer.node /\ ctl.target # None) =>
    IF last.arg = <<>> THEN GhostHiddenAndEmpty
    ELSE ctl.flags.ghostTextEnabled =>
           (~ctl.ghostLayer.hidden /\ ctl.ghostLayer.html = GhostMarkup(last.arg))

\* No annotation state is stored and no layer shows any.
NoStoredAnnotations ==
  /\ ctl.ghostCompletion = <<>>
  /\ ctl.suggestions = <<>>
  /\ ctl.errors = <<>>

LayersShowNothing ==
  /\ ~Shown(ctl.ghostLayer) /\ ctl.ghostLayer.html = <<>>
  /\ ctl.suggestionsLayer.pills = <<>>
  /\ ctl.errorsLayer.html = <<>>

\* C11: after setTarget has attached the controller to a new element, the
\* stored ghost completion, suggestion list and error list are empty and the
\* layers show nothing of the previous target.
C11_AttachClearsAnnotations ==
  (/\ last.op \in {"setTarget", "attachToActiveTextarea"}
   /\ last.arg # None
   /\ last.arg # last.pre.target
   /\ ctl.target = last.arg)
  => (NoStoredAnnotations /\ LayersShowNothing)

\* C12: after the controller leaves the attached state (setFlags with the
\* overlay disabled, or setTarget(null)) no listener is registered, no visual
\* tree is left, and the stored ghost completion, suggestion list and error
\* list are empty.
C12_DetachClearsState ==
  (/\ last.pre.target # None
   /\ \/ last.op = "setFlags" /\ ~last.arg.overlayEnabled
      \/ last.op = "setTarget" /\ last.arg = None)
  => (/\ ctl.target = None
      /\ dom.roots = 0 /\ dom.tooltips = 0
      /\ \A e \in Elements : ListenerCount(e) = 0
      /\ NoStoredAnnotations)

\* C13: once the mutation that removed the tracked element from the document
\* has been processed, the controller no longer tracks that element and has
\* no listener on it, and unless it attached to a replacement it has no
\* target and no visual tree.
C13_RemovedTargetIsCleared ==
  (/\ last.op = "remove"
   /\ last.pre.target = last.arg)
  => (/\ ctl.target # last.arg
      /\ ListenerCount(last.arg) = 0
      /\ ctl.target = None => (dom.roots = 0 /\ dom.tooltips = 0))

\* C14: the ghost, the suggestions and the errors are owned independently:
\* renderGhostText leaves the stored suggestions and errors and their layers
\* as they were, renderSuggestions leaves the ghost and the errors as they
\* were, and renderCriticalErrors the ghost and the suggestions.
C14_AnnotationsIndependent ==
  [][/\ last'.op = "renderGhostText" =>
          /\ ctl'.suggestions = ctl.suggestions
          /\ ctl'.errors = ctl.errors
          /\ ctl'.suggestionsLayer = ctl.suggestionsLayer
          /\ ctl'.errorsLayer = ctl.errorsLayer
     /\ last'.op = "renderSuggestions" =>
          /\ ctl'.ghostCompletion = ctl.ghostCompletion
          /\ ctl'.errors = ctl.errors
          /\ ctl'.ghostLayer = ctl.ghostLayer
          /\ ctl'.errorsLayer = ctl.errorsLayer
     /\ last'.op = "renderCriticalErrors" =>
          /\ ctl'.ghostCompletion = ctl.ghostCompletion
          /\ ctl'.suggestions = ctl.suggestions
          /\ ctl'.ghostLayer = ctl.ghostLayer
          /\ ctl'.suggestionsLayer = ctl.suggestionsLayer]_vars

\* renderGhostText("") has run while suggestions and errors were on screen.
C14_Witness ==
  /\ last.op = "renderGhostText" /\ last.arg = <<>>
  /\ ctl.suggestions # <<>> /\ Shown(ctl.suggestionsLayer)
  /\ ctl.suggestionsLayer.pills = ctl.suggestions
  /\ ctl.errors # <<>> /\ ctl.errorsLayer.html # <<>>

\* The value a click on a pill with detail d leaves in an input holding v.
AppendedDetail(v, d) ==
  IF Trim(v) # <<>> THEN TrimEnd(v) \o <<"\n", "\n">> \o d ELSE d

WrappedHighlights == SortByStart(LocateHighlights(ctl.currentText, ctl.errors))

\* The errors layer holds the markup of a non-empty error list.
ErrorsRendered == ctl.errorsLayer.node /\ ctl.errors # <<>>

RECURSIVE UnescapedPieces(_)
\* The unescaped texts of the markup's pieces, plain and wrapped, in order.
UnescapedPieces(markup) ==
  IF markup = <<>> THEN <<>>
  ELSE unescapeHtml(Head(markup).text) \o UnescapedPieces(Tail(markup))

\* C16: the ranges the error markup wraps do not overlap and are ordered:
\* each starts at or after the end of the one before.
C16_WrappedRangesDisjoint ==
  \A i \in 1..(Len(WrappedHighlights) - 1) :
    WrappedHighlights[i + 1].start >= WrappedHighlights[i].end

\* C17: the error markup holds every character of the text once: the
\* unescaped plain and wrapped segments, in order, make up the text; with no
\* error located (an empty list, or spans that all miss) the markup is the
\* escaped text without a wrapper.
C17_MarkupHoldsTextOnce ==
  /\ ErrorsRendered => UnescapedPieces(ctl.errorsLayer.html) = ctl.currentText
  /\ (ErrorsRendered /\ WrappedHighlights = <<>>) =>
       ctl.errorsLayer.html = Plain(escapeHtml(ctl.currentText))
  /\ buildErrorMarkup(ctl.currentText, <<>>) = Plain(escapeHtml(ctl.currentText))

\* C18: the located spans are in ascending order of start; the text between
\* start and end of each equals its trimmed query but for case, and no
\* earlier offset of the text has such an occurrence.
C18_SpansAtFirstOccurrence ==
  /\ \A i \in 1..(Len(WrappedHighlights) - 1) :
       WrappedHighlights[i].start <= WrappedHighlights[i + 1].start
  /\ \A i \in 1..Len(WrappedHighlights) :
       LET h == WrappedHighlights[i]
           query == Trim(h.error.span)
       IN /\ ToLowerCase(Slice(ctl.currentText, h.start, h.end)) = ToLowerCase(query)
          /\ \A j \in 0..(h.start - 1) :
               ToLowerCase(Slice(ctl.currentText, j, j + Len(query))) # ToLowerCase(query)

\* Escaped text: none of < > " ' is left in it, and each & starts one of the
\* five entities.
IsEscaped(s) ==
  \A i \in 1..Len(s) :
    /\ s[i] \notin {"<", ">", "\"", "'"}
    /\ s[i] = "&" => \E entity \in Entities : StartsWith(SubSeq(s, i, Len(s)), entity)

\* escapeHtml acts on s character by character and unescaping its result
\* gives s back.
EscapesFaithfully(s) ==
  /\ IsEscaped(escapeHtml(s))
  /\ unescapeHtml(escapeHtml(s)) = s
  /\ \A k \in 0..Len(s) :
       escapeHtml(s) = escapeHtml(SubSeq(s, 1, k)) \o escapeHtml(SubSeq(s, k + 1, Len(s)))

\* C19: every text that enters markup is escaped: the ghost prefix and
\* completion, the plain and wrapped error segments and the message
\* attribute hold none of the five characters but as entities and unescape
\* to their source; escapeHtml acts character by character.
C19_MarkupTextIsEscaped ==
  /\ EscapesFaithfully(ctl.currentText)
  /\ EscapesFaithfully(ctl.ghostCompletion)
  /\ \A i \in 1..Len(ctl.errors) : EscapesFaithfully(ctl.errors[i].message)
  /\ Shown(ctl.ghostLayer) =>
       /\ \A i \in 1..Len(ctl.ghostLayer.html) : IsEscaped(ctl.ghostLayer.html[i].text)
       /\ unescapeHtml(ctl.ghostLayer.html[1].text) = dom.value[ctl.target]
       /\ unescapeHtml(ctl.ghostLayer.html[2].text) = ctl.ghostCompletion
  /\ ErrorsRendered =>
       \A i \in 1..Len(ctl.errorsLayer.html) :
         LET piece == ctl.errorsLayer.html[i]
         IN /\ IsEscaped(piece.text)
            /\ IsEscaped(piece.message)
            /\ piece.kind = "underline" =>
                 unescapeHtml(piece.message) = WrappedHighlights[piece.index + 1].error.message

\* A ghost and an error wrapper are on screen whose sources hold characters
\* that escapeHtml replaces.
C19_Witness ==
  /\ Shown(ctl.ghostLayer)
  /\ escapeHtml(ctl.ghostCompletion) # ctl.ghostCompletion
  /\ escapeHtml(dom.value[ctl.target]) # dom.value[ctl.target]
  /\ ErrorsRendered
  /\ \E i \in 1..Len(ctl.errorsLayer.html) :
       LET piece == ctl.errorsLayer.html[i]
       IN /\ piece.kind = "underline"
          /\ unescapeHtml(piece.text) # piece.text
          /\ unescapeHtml(piece.message) # piece.message

\* The query occurs in the text, case aside.
Occurs(text, query) ==
  \E i \in 0..(Len(text) - Len(query)) :
    ToLowerCase(Slice(text, i, i + Len(query))) = ToLowerCase(query)

\* The errors of the list that are to be rendered: those whose trimmed span
\* is not blank and occurs in the text.
RECURSIVE ErrorsThatOccur(_, _)
ErrorsThatOccur(text, errors) ==
  IF errors = <<>> THEN <<>>
  ELSE (IF Trim(Head(errors).span) # <<>> /\ Occurs(text, Trim(Head(errors).span))
        THEN <<Head(errors)>> ELSE <<>>)
       \o ErrorsThatOccur(text, Tail(errors))

Wrappers(markup) == SelectSeq(markup, LAMBDA piece : piece.kind = "underline")

\* C20: an error whose span is blank or does not occur in the text gets no
\* wrapper, and every other error of the list gets its own: the markup has
\* one wrapper, carrying the error's message, for each error whose span
\* occurs, and none else.
C20_MissesDroppedOthersRendered ==
  (ErrorsRendered /\ ctl.currentText # <<>>) =>
    LET wrappers == Wrappers(ctl.errorsLayer.html)
        expected == ErrorsThatOccur(ctl.currentText, ctl.errors)
    IN /\ Len(wrappers) = Len(expected)
       /\ \A error \in {expected[i] : i \in 1..Len(expected)} :
            Cardinality({i \in 1..Len(wrappers) :
                           wrappers[i].message = escapeHtml(error.message)})
            = Cardinality({i \in 1..Len(expected) : expected[i] = error})

\* A list whose first error misses and whose second occurs has been rendered.
C20_Witness ==
  /\ ErrorsRendered
  /\ ctl.errors = <<ErrorMissing, ErrorTwoLetters>>
  /\ Len(Wrappers(ctl.errorsLayer.html)) = 1

(***************************************************************************)
(* The background worker's responses                                       *)
(***************************************************************************)

IsError(reply) == "error" \in DOMAIN reply

IsResult(reply) == "type" \in DOMAIN reply /\ "data" \in DOMAIN reply

\* C21: every reply of the worker to a request of one of the four message
\* types is an error or a result of the type that belongs to the request's
\* type, and a result whenever the model call succeeded; a rewrite result
\* echoes the request's mode and tone; a request of any other type is
\* answered with an error and never with a result.
C21_ResponseTypeMatchesRequest ==
  \A i \in 1..Len(bg.replies) :
    LET request == bg.request[1]
        reply == bg.replies[i]
    IN IF request.type \in MessageTypes
       THEN /\ IsError(reply) \/ IsResult(reply)
            /\ bg.raw # <<>> => IsResult(reply)
            /\ IsResult(reply) =>
                 /\ reply.type = ResponseTypeOf(request.type)
                 /\ request.type = "rewrite" =>
                      /\ reply.data.mode = request.mode
                      /\ reply.data.tone = request.tone
       ELSE IsError(reply) /\ ~IsResult(reply)

\* A rewrite request in power mode and casual tone has been answered with a
\* result.
C21_Witness ==
  /\ bg.replies # <<>>
  /\ IsResult(bg.replies[1])
  /\ bg.request[1].type = "rewrite"
  /\ bg.request[1].mode = "power"
  /\ bg.request[1].tone = "casual"

NonEmpty(s) == s # <<>>

NonBlank(s) == \E i \in 1..Len(s) : ~IsSpace(s[i])

\* The entries of a versions array that are strings and not blank (or, with
\* blanks kept, not empty), trimmed, in order.
RECURSIVE TrimmedStrings(_, _)
TrimmedStrings(entries, blanks) ==
  IF entries = <<>> THEN <<>>
  ELSE (IF /\ Head(entries).t = "string"
           /\ IF blanks THEN NonEmpty(Head(entries).v)
              ELSE NonBlank(Head(entries).v)
        THEN <<Trim(Head(entries).v)>> ELSE <<>>)
       \o TrimmedStrings(Tail(entries), blanks)

\* The versions array of a JSON text, empty for any other text.
VersionsArray(raw) ==
  LET parsed == JSONParse(raw)
  IN IF parsed.t = "object" /\ HasKey(parsed, VERSIONS)
        /\ Member(parsed, VERSIONS).t = "array"
     THEN Member(parsed, VERSIONS).v
     ELSE <<>>

\* The rewrite result the worker sent for its request is data, and the
\* wanted versions of the model output are versions: with the flag set and
\* a version wanted, data holds these versions and no text, and in every
\* other case the raw output as text and no versions.
OneOfVersionsOrText(request, raw, data, versions) ==
  IF request.includeMultipleVersions /\ versions # <<>>
  THEN /\ "versions" \in DOMAIN data /\ "text" \notin DOMAIN data
       /\ data.versions = versions
  ELSE /\ "text" \in DOMAIN data /\ "versions" \notin DOMAIN data
       /\ data.text = raw

RewriteAnswered ==
  /\ bg.replies # <<>>
  /\ bg.request[1].type = "rewrite"
  /\ IsResult(bg.replies[1])

\* C22: the data of a rewrite result holds exactly one of versions and
\* text: the trimmed strings of the model output's versions array that are
\* not blank, in order, and no text, when includeMultipleVersions is set and
\* there is such a string; the raw model output as text, and no versions, in
\* every other case.
C22_VersionsOrText ==
  RewriteAnswered =>
    OneOfVersionsOrText(bg.request[1], bg.raw[1], bg.replies[1].data,
                        TrimmedStrings(VersionsArray(bg.raw[1]), FALSE))

\* A request with includeMultipleVersions set was answered with the three
\* versions of an array of five entries, one of them trimmed.
C22_Witness ==
  /\ RewriteAnswered
  /\ bg.request[1].includeMultipleVersions
  /\ "versions" \in DOMAIN bg.replies[1].data
  /\ bg.replies[1].data.versions = << <<"a">>, <<"b">>, <<"c">> >>

\* C22 as stated: versions are returned whenever the array holds a string
\* that is not empty.
C22_VersionsWhenAnyNonEmptyString ==
  RewriteAnswered =>
    OneOfVersionsOrText(bg.request[1], bg.raw[1], bg.replies[1].data,
                        TrimmedStrings(VersionsArray(bg.raw[1]), TRUE))

\* An entry with a string under each of the two keys.
HasStrings(entry, key1, key2) ==
  /\ entry.t = "object"
  /\ HasKey(entry, key1) /\ Member(entry, key1).t = "string"
  /\ HasKey(entry, key2) /\ Member(entry, key2).t = "string"

IsCriticalError(entry) == HasStrings(entry, SPAN, MESSAGE)

\* The critical errors a model output lists.
ListedErrors(raw) ==
  IF JSONParse(raw).t # "array" THEN <<>>
  ELSE LET kept == SelectSeq(JSONParse(raw).v, IsCriticalError)
       IN [i \in 1..Len(kept) |->
             [span |-> Trim(Member(kept[i], SPAN).v),
              message |-> Trim(Member(kept[i], MESSAGE).v)]]

CriticalErrorsParsed ==
  /\ bg.request # <<>> /\ bg.request[1].type = "criticalErrors"
  /\ bg.raw # <<>>

\* C23: whatever the model returned for a critical-errors request,
\* parseCriticalErrors does not throw (the worker replies with a result, not
\* an error); the errors of the result are the entries of the JSON array
\* that have a string span and a string message, trimmed and in order, and
\* none for an output that is no JSON array.
C23_MalformedErrorsFiltered ==
  CriticalErrorsParsed =>
    /\ Len(bg.replies) = 1
    /\ IsResult(bg.replies[1])
    /\ bg.replies[1].data.errors = ListedErrors(bg.raw[1])

\* An array of a malformed entry, an entry to trim, null and a plain entry
\* was parsed into its two errors.
C23_Witness ==
  /\ CriticalErrorsParsed
  /\ JSONParse(bg.raw[1]).t = "array"
  /\ Len(JSONParse(bg.raw[1]).v) = 4
  /\ bg.replies[1].data.errors =
       << [span |-> <<"a">>, message |-> <<"b">>],
          [span |-> <<"d">>, message |-> <<"e">>] >>

IsSuggestion(item) == HasStrings(item, LABEL, REASON)

\* The array of suggestion items of a model output, in a sequence of its
\* own: the output itself, or its member suggestions; the empty sequence
\* when the output is no JSON text or has no such array.
SuggestionsArray(raw) ==
  LET parsed == JSONParse(raw)
  IN IF parsed.t = "array" THEN <<parsed.v>>
     ELSE IF parsed.t = "object" /\ HasKey(parsed, SUGGESTIONS)
             /\ Member(parsed, SUGGESTIONS).t = "array"
     THEN <<Member(parsed, SUGGESTIONS).v>>
     ELSE <<>>

\* The lines of a text, each ended by one line break or by the text's end.
RECURSIVE LinesOf(_)
LinesOf(s) ==
  IF \A i \in 1..Len(s) : s[i] # "\n" THEN <<s>>
  ELSE LET i == CHOOSE i \in 1..Len(s) :
                  s[i] = "\n" /\ \A j \in 1..(i - 1) : s[j] # "\n"
       IN <<SubSeq(s, 1, i - 1)>> \o LinesOf(SubSeq(s, i + 1, Len(s)))

SuggestionsParsed ==
  /\ bg.request # <<>> /\ bg.request[1].type = "suggestions"
  /\ bg.raw # <<>>

\* C24: whatever the model returned for a suggestions request,
\* parseSuggestions does not throw.  For a JSON array, or an object with a
\* suggestions array, the suggestions of the result are, in order, the
\* items with a string label and a string reason (trimmed, with the item's
\* type when that is a string), and no others; for any other output they
\* are one generic suggestion for each line that is not blank, in order,
\* the i-th labelled Suggestion i and holding the trimmed line.
C24_SuggestionsParsed ==
  SuggestionsParsed =>
    /\ Len(bg.replies) = 1
    /\ IsResult(bg.replies[1])
    /\ LET suggestions == bg.replies[1].data.suggestions
           array == SuggestionsArray(bg.raw[1])
       IN IF array # <<>>
          THEN LET kept == SelectSeq(array[1], IsSuggestion)
               IN /\ Len(suggestions) = Len(kept)
                  /\ \A i \in 1..Len(kept) :
                       /\ suggestions[i].label = Trim(Member(kept[i], LABEL).v)
                       /\ suggestions[i].reason = Trim(Member(kept[i], REASON).v)
                       /\ OptionalMember(kept[i], TYPE).t = "string" =>
                            suggestions[i].type = Member(kept[i], TYPE).v
          ELSE LET lines == SelectSeq(LinesOf(bg.raw[1]), NonBlank)
               IN /\ Len(suggestions) = Len(lines)
                  /\ \A i \in 1..Len(lines) :
                       /\ suggestions[i].type = GENERIC
                       /\ suggestions[i].label = SUGGESTION_ \o <<DIGITS[i + 1]>>
                       /\ suggestions[i].reason = Trim(lines[i])

\* A text of five lines, two of them blank, was parsed into three generic
\* suggestions.
C24_Witness ==
  /\ SuggestionsParsed
  /\ Len(LinesOf(bg.raw[1])) = 5
  /\ Len(bg.replies[1].data.suggestions) = 3
  /\ bg.replies[1].data.suggestions[3] =
       [type |-> GENERIC, label |-> SUGGESTION_ \o <<"3">>, reason |-> <<"c">>]

(***************************************************************************)
(* The popup's requests                                                    *)
(***************************************************************************)

\* C25: when the popup has sent a rewrite request since it was opened, a
\* click on Regenerate sends a request with the text, mode, tone,
\* includeMultipleVersions and complexity of the request sent last, whatever
\* the input, the controls and the preferences hold.
C25_RegenerateReusesPayload ==
  [][(last'.op = "regenerate" /\ popup.sent # <<>>) =>
       /\ popup'.loading
       /\ popup'.sent # <<>>
       /\ \A field \in {"text", "mode", "tone", "includeMultipleVersions",
                         "complexity"} :
            popup'.sent[1][field] = popup.sent[1][field]]_vars

\* Regenerate has just sent a request that differs from the input and the
\* controls in its text, mode, includeMultipleVersions and complexity.
C25_Witness ==
  /\ last.op = "regenerate"
  /\ popup.loading
  /\ popup.sent[1].text # Trim(popup.inputEl)
  /\ popup.sent[1].mode # popup.modeEl
  /\ popup.sent[1].includeMultipleVersions # popup.state.includeMultipleVersions
  /\ popup.sent[1].complexity # popup.state.complexity

(***************************************************************************)
(* Preferences and the store                                               *)
(***************************************************************************)

\* The preferences the store stands for: the stored item over the defaults.
Persisted == Spread(DEFAULT_PREFERENCES, syncGet(sync.area, DEFAULT_PREFERENCES))

\* C26: when every update() made so far has been written to the store, the
\* preferences a new manager's init() returns in the reopened popup hold,
\* for every field passed to an update, the value of the latest update that
\* passed it; for every other field the value the store held at first; and
\* the default for a field never stored.
C26_PreferencesRoundTrip ==
  (/\ last.op = "popupTask" /\ last.arg = "get"
   /\ \A i \in 1..Len(sync.calls) : sync.calls[i].op # "set")
  => sync.managers["popup"].value = Spread(DEFAULT_PREFERENCES, sync.history)

\* The item the store holds once it has served the calls made so far: the
\* value of the latest update() that still waits, or else the stored item.
LatestWrite ==
  LET sets == {i \in 1..Len(sync.calls) : sync.calls[i].op = "set"}
  IN IF sets = {} THEN sync.area
     ELSE sync.calls[CHOOSE i \in sets : \A j \in sets : j <= i].value

\* C36: the in-memory preferences never move backwards: while the popup's
\* manager holds the value of its latest update(), a storage-change
\* notification leaves every field of the in-memory value as it is, and so
\* the listeners are not given an older value.
C36_MemoryNeverMovesBack ==
  [][(/\ last'.op = "popupTask" /\ last'.arg = "changed"
      /\ sync.managers["popup"].initialized
      /\ sync.managers["popup"].value
           = Spread(DEFAULT_PREFERENCES, syncGet(LatestWrite, DEFAULT_PREFERENCES)))
     => sync'.managers["popup"].value = sync.managers["popup"].value]_vars

\* C27: once init() has resolved in the content script, and whenever no
\* change event of the store is on its way to it, the flags last passed to
\* setOverlayFlags are the four switches of the persisted preferences.
C27_FlagsFollowStore ==
  (/\ sync.managers["content"].initialized
   /\ sync.tasks["content"] = <<>>)
  => ctl.flags = FlagsOf(Persisted)

\* A request of the response's kind that waits for its response and was
\* sent for a longer text than the response's request: where the text only
\* grows, a request issued after it.
NewerRequestWaits(response, waiting) ==
  \E request \in BagToSet(waiting) :
    /\ request.type = response.request.type
    /\ Len(request.text) > Len(response.request.text)

\* C28: a response whose request is older than a request of the same kind
\* issued since is discarded: its handling leaves the overlay and the page
\* as they were.
C28_OlderResponseDiscarded ==
  [][(/\ last'.op = "response"
      /\ last'.arg.ok
      /\ NewerRequestWaits(last'.arg, net'))
     => (ctl' = ctl /\ dom' = dom)]_vars

\* C29: at most one pause timeout waits; after an input event on an input
\* with the pause listener the one that waits is a new one, with the whole
\* of TYPING_PAUSE_MS left; and when the pause check runs, TYPING_PAUSE_MS
\* or more have passed since the last input event on such an input.
C29_PauseIsDebounced ==
  /\ Cardinality(dom.timeouts) <= 1
  /\ (last.op = "input" /\ dom.pauseListeners[last.arg] > 0) =>
       (/\ cs.pauseTimer # <<>>
        /\ dom.timeouts = {[id |-> cs.pauseTimer[1], left |-> TYPING_PAUSE_MS]})
  /\ last.op = "pauseCheck" => dom.idle >= TYPING_PAUSE_MS

\* The pause check has run on a text, a pause after the last input event,
\* and no timeout waits.
C29_Witness ==
  /\ last.op = "pauseCheck"
  /\ last.arg # <<>>
  /\ cs.pauseTimer # <<>>
  /\ dom.timeouts = {}
  /\ dom.idle = TYPING_PAUSE_MS

\* The requests of a type the step has sent.
SentOfType(type) ==
  {request \in BagToSet(net') :
     request.type = type /\ CopiesIn(request, net') > CopiesIn(request, net)}

\* C30: a pause check on an empty trimmed text empties the three overlay
\* states and sends nothing; on fewer than WORD_THRESHOLD words it sends at
\* most one request, an autocomplete request for the text; on more it sends
\* no autocomplete request and at most one suggestions and one
\* critical-errors request, each for the text.
C30_RequestsByWordCount ==
  [][last'.op = "pauseCheck" =>
       LET text == last'.arg
           sent == BagCardinality(net') - BagCardinality(net)
           of(type) == SentOfType(type)
       IN /\ \A request \in BagToSet(net') :
               CopiesIn(request, net') <= CopiesIn(request, net) + 1
          /\ \A request \in BagToSet(net) :
               CopiesIn(request, net') >= CopiesIn(request, net)
          /\ text = <<>> =>
               (/\ sent = 0
                /\ ctl'.ghostCompletion = <<>>
                /\ ctl'.suggestions = <<>>
                /\ ctl'.errors = <<>>)
          /\ (text # <<>> /\ getWordCount(text) < WORD_THRESHOLD) =>
               (/\ of("suggestions") = {} /\ of("criticalErrors") = {}
                /\ of("autocomplete") \subseteq {Request("autocomplete", text)})
          /\ getWordCount(text) >= WORD_THRESHOLD =>
               (/\ of("autocomplete") = {}
                /\ of("suggestions") \subseteq {Request("suggestions", text)}
                /\ of("criticalErrors") \subseteq {Request("criticalErrors", text)})]_vars

\* A pause check on a long text has sent a suggestions request and a
\* critical-errors request for it.
C30_Witness ==
  /\ last.op = "pauseCheck"
  /\ getWordCount(last.arg) >= WORD_THRESHOLD
  /\ CopiesIn(Request("suggestions", last.arg), net) > 0
  /\ CopiesIn(Request("criticalErrors", last.arg), net) > 0

\* The overlay root lies on the target's bounding box, offset by the
\* window's scroll, and the text layer has the target's computed typography.
LaidOutOnTarget ==
  LET rect == getBoundingClientRect(ctl.target, dom.geom)
      page == PageGeometry(dom.geom)
  IN /\ ctl.root.style = [top |-> rect.top + page.scrollY,
                          left |-> rect.left + page.scrollX,
                          width |-> rect.width, height |-> rect.height]
     /\ ctl.textLayer.font = getComputedStyle(ctl.target, dom.geom)

\* C31: when an input event, a scroll event or a resize-observer callback of
\* the target has been handled while the controller has a target and a
\* visual tree, the root and the text layer are laid out on the target as
\* it is now.
C31_LayoutFollowsTarget ==
  (/\ last.op \in {"input", "scroll", "resize"}
   /\ ctl.target # None
   /\ last.arg = ctl.target
   /\ ctl.root.node)
  => LaidOutOnTarget

\* The target has been resized in a scrolled window and the root moved with
\* it.
C31_Witness ==
  /\ last.op = "resize"
  /\ ctl.target # None
  /\ last.arg = ctl.target
  /\ ctl.root.node
  /\ PageGeometry(dom.geom).scrollY > 0
  /\ ctl.root.style.top = getBoundingClientRect(ctl.target, dom.geom).top
                           + PageGeometry(dom.geom).scrollY

\* The preference that switches a request type's feature.
FeatureOf(type) ==
  CASE type = "autocomplete" -> "ghostTextEnabled"
    [] type = "suggestions" -> "suggestionsEnabled"
    [] type = "criticalErrors" -> "criticalErrorsEnabled"

\* C32: every request a pause check sends is for a feature that is switched
\* on, with the overlay switched on, in the content script's preferences at
\* that moment.
C32_NoRequestForDisabledFeature ==
  [][last'.op = "pauseCheck" =>
       \A type \in {"autocomplete", "suggestions", "criticalErrors"} :
         SentOfType(type) # {} =>
           (cs.preferences.overlayEnabled /\ cs.preferences[FeatureOf(type)])]_vars

\* C33: while the persisted overlayEnabled preference is false, no overlay
\* root is in the document.
C33_NoTreeWhileStoredOff ==
  ~Persisted.overlayEnabled => (~ctl.root.node /\ dom.roots = 0)

\* C34: while the overlay is enabled and the content script's active input
\* is a textarea with its input listener, the controller's target is that
\* element.
C34_TargetIsActiveInput ==
  (/\ cs.activeInput # None
   /\ IsTextArea(cs.activeInput)
   /\ dom.pauseListeners[cs.activeInput] > 0
   /\ ctl.flags.overlayEnabled)
  => ctl.target = cs.activeInput

\* C35: while the tooltip is visible the pointer is over an underline of the
\* error layer as it is now, and the tooltip shows that underline's message.
C35_TooltipOnlyOverUnderline ==
  (ctl.tooltip.node /\ ~ctl.tooltip.hidden)
  => (/\ dom.hover # <<>>
      /\ dom.hover[1] \in Underlines(W)
      /\ ctl.tooltip.text = unescapeHtml(ctl.errorsLayer.html[dom.hover[1]].message))

(***************************************************************************)
(* The retries of the model call                                           *)
(***************************************************************************)

\* C37: callWithRetry calls the model at most MAX_RETRIES times for a
\* request; a call that succeeds is the last one, and its result is
\* returned; callWithRetry fails only after MAX_RETRIES calls that all
\* failed, with the error of the last of them; and it always ends.
C37_AtMostThreeCalls ==
  /\ [](LET n == Len(bg.calls)
        IN /\ n <= MAX_RETRIES
           /\ bg.calling => n < MAX_RETRIES
           /\ \A i \in 1..n : bg.calls[i].ok => i = n
           /\ (n > 0 /\ bg.calls[n].ok) =>
                (~bg.calling /\ Len(bg.replies) = 1 /\ IsResult(bg.replies[1]))
           /\ (n > 0 /\ ~bg.calling /\ ~bg.calls[n].ok) =>
                (/\ n = MAX_RETRIES
                 /\ bg.replies = <<ErrorReply(bg.calls[n].error)>>))
  /\ (bg.calling ~> ~bg.calling)

\* callWithRetry has failed after two calls that failed for the request and
\* a third for the content.
C37_Witness ==
  /\ ~bg.calling
  /\ Len(bg.calls) = MAX_RETRIES
  /\ bg.calls[1].error = "OpenAI request failed"
  /\ bg.calls[MAX_RETRIES].error = "OpenAI response missing content"
  /\ bg.replies = <<ErrorReply("OpenAI response missing content")>>

(***************************************************************************)
(* Requests, replies and the sender's promise                              *)
(***************************************************************************)

\* The listener has called sendResponse at most once, and once when it has
\* finished with the request.
OneReply ==
  /\ Len(bg.replies) <= 1
  /\ (bg.request # <<>> /\ ~bg.calling) => Len(bg.replies) = 1

\* The sender's callback has settled its promise with one call of resolve
\* or reject: rejected for a runtime error, a missing reply and an error
\* reply, and fulfilled with the response otherwise.
SettledOnce ==
  last.op = "settled" =>
    LET promise == last.arg.promise
        failed == \/ last.arg.runtimeError # <<>>
                  \/ last.arg.response = <<>>
                  \/ IsError(last.arg.response[1])
    IN /\ promise.calls = 1
       /\ promise.state = IF failed THEN "rejected" ELSE "fulfilled"
       /\ ~failed => promise.value = last.arg.response

\* Every message sent is answered by the callback, and every request the
\* listener took by sendResponse.
EveryRequestAnswered ==
  /\ (net # EmptyBag) ~> (net = EmptyBag /\ last.op = "settled")
  /\ bg.calling ~> (~bg.calling)

\* The model's output is no JSON text, for a request whose handler parses it.
ParsingFails ==
  /\ bg.raw # <<>>
  /\ JSONParse(bg.raw[1]) = SyntaxError
  /\ \/ bg.request[1].type \in {"suggestions", "criticalErrors"}
     \/ bg.request[1].type = "rewrite" /\ bg.request[1].includeMultipleVersions

\* C38, as the specification has it: every request gets one reply, the
\* typed result on success and an error object when routing, the model
\* call or parsing fails, and the sender's promise settles once, rejected
\* for an error reply, a missing reply and a runtime error.
C38_ErrorReplyWhenParsingFails ==
  /\ OneReply
  /\ SettledOnce
  /\ \A i \in 1..Len(bg.replies) :
       IF \/ bg.request[1].type \notin MessageTypes
          \/ bg.raw = <<>>
          \/ ParsingFails
       THEN IsError(bg.replies[i])
       ELSE /\ IsResult(bg.replies[i])
            /\ bg.replies[i].type = ResponseTypeOf(bg.request[1].type)

\* C38, amended: every request gets one reply, the typed result whenever
\* the model call succeeded, whether or not its output could be parsed,
\* and an error object when routing or the model call fails; the sender's
\* promise settles once, rejected for an error reply, a missing reply and
\* a runtime error; and every message sent is answered.
C38_OneReplyOneSettlement ==
  /\ [](/\ OneReply
        /\ SettledOnce
        /\ \A i \in 1..Len(bg.replies) :
             IF bg.request[1].type \notin MessageTypes \/ bg.raw = <<>>
             THEN IsError(bg.replies[i])
             ELSE /\ IsResult(bg.replies[i])
                  /\ bg.replies[i].type = ResponseTypeOf(bg.request[1].type))
  /\ EveryRequestAnswered

\* The worker has answered a suggestions request with an error object after
\* its model calls failed, and the sender's promise is rejected with the
\* error's message.
C38_Witness ==
  /\ last.op = "settled"
  /\ last.arg.request.type = "suggestions"
  /\ last.arg.runtimeError = <<>>
  /\ last.arg.response = <<ErrorReply("OpenAI request failed")>>
  /\ last.arg.promise = [state |-> "rejected",
                          value |-> <<"OpenAI request failed">>, calls |-> 1]

(***************************************************************************)
(* Failed requests                                                         *)
(***************************************************************************)

\* The step is the end of a request that was rejected or answered with a
\* response of another type.
RequestFailed == \/ last'.op = "response" /\ ~last'.arg.ok
                 \/ last'.op = "otherResponse"

\* C39: a request that is rejected, or answered with a response of another
\* type, leaves the overlay, the page and the content script as they were:
\* the stored ghost, suggestions and errors keep their values and nothing
\* is rendered; the other requests keep waiting, and the result of each
\* that is answered is stored for rendering, whatever failed before.
C39_FailedRequestChangesNothing ==
  [][/\ RequestFailed =>
          /\ ctl' = ctl /\ dom' = dom /\ cs' = cs
          /\ net' = net (-) SetToBag({last'.arg.request})
     /\ (last'.op = "response" /\ last'.arg.ok) =>
          CASE last'.arg.request.type = "autocomplete" ->
                 ctl'.ghostCompletion = last'.arg.data
            [] last'.arg.request.type = "suggestions" ->
                 ctl'.suggestions = last'.arg.data
            [] last'.arg.request.type = "criticalErrors" ->
                 ctl'.errors = last'.arg.data]_vars

\* The suggestions request of a pause check was rejected while errors were
\* on screen, and the critical-errors request sent with it still waits.
C39_Witness ==
  /\ last.op = "response" /\ ~last.arg.ok
  /\ last.arg.request.type = "suggestions"
  /\ Request("criticalErrors", last.arg.request.text) \in BagToSet(net)
  /\ ctl.errors # <<>>
  /\ ctl.errorsLayer.html # <<>>

(***************************************************************************)
(* init() called more than once                                            *)
(***************************************************************************)

\* The reads of the store the popup's manager waits for: its calls of get
\* not yet served, and the callbacks of get on their way to it.
ReadsWaiting ==
  Cardinality({i \in 1..Len(sync.calls) :
                 sync.calls[i].op = "get" /\ sync.calls[i].context = "popup"})
  + Cardinality({i \in 1..Len(sync.tasks["popup"]) :
                   sync.tasks["popup"][i].kind = "get"})

\* C40: a manager has at most one storage-change listener, and reads the
\* store at most once: no read waits once it is initialized, and at most
\* one before, however many times init() was called.
C40_OneListenerOneRead ==
  sync.live["popup"] =>
    /\ sync.managers["popup"].storageListeners <= 1
    /\ ReadsWaiting <= (IF sync.managers["popup"].initialized THEN 0 ELSE 1)

====
